---- MODULE Spec2Model ----
(***************************************************************************)
(* QuizAPP game session engine (app/services/game.py) together with the    *)
(* part of quiz authoring it depends on (app/services/quiz.py,             *)
(* app/services/question.py).                                              *)
(*                                                                         *)
(* Every table of the database is a sequence of rows in insertion order;   *)
(* a row's id is its position in the table when it was inserted.  Every    *)
(* service is an operator that reads the tables and yields its reply: the  *)
(* HTTP status and detail it ends with, the value it returns and the       *)
(* tables as it leaves them.  A call is one atomic step that commits the   *)
(* reply's tables.                                                         *)
(*                                                                         *)
(* Scores are Python floats in the source.  They are kept here as exact    *)
(* integers in units of 1/ScoreScale, ScoreScale being a common multiple   *)
(* of every denominator the scoring rule can divide by.                    *)
(***************************************************************************)
EXTENDS Integers, Sequences, FiniteSets, TLC

\* The tables, the calls in flight when calls overlap (none when they run one at a
\* time) and the isolation level of the store's transactions.
VARIABLES quizzes, questions, games, gameQuestions, gameAnswers, calls, isolation_level

vars == <<quizzes, questions, games, gameQuestions, gameAnswers, calls, isolation_level>>

\* The database as one value.
DB == [quizzes |-> quizzes, questions |-> questions, games |-> games,
       gameQuestions |-> gameQuestions, gameAnswers |-> gameAnswers]

----------------------------------------------------------------------------
(* Bounds of the model *)

\* Questions ever added to the quizzes.
MaxQuestions == 2
\* Choice ids in one Answer request.
MaxChoices == 2
\* Questions in one add-questions request.
MaxBatch == 1

(* Program constants *)

min_items == 2
max_items == 5

Users == {"u1", "u2"}
\* The users who create quizzes, the ids of the Quiz rows and of the Game rows: the
\* model follows one quiz and one play-through of it, by either user.
Authors == {"u1"}
QuizPool == {1}
GamePool == {1}

SINGLE_ANSWER == "SINGLE_ANSWER"
MULTIPLE_ANSWERS == "MULTIPLE_ANSWERS"
QuestionTypeEnum == {SINGLE_ANSWER, MULTIPLE_ANSWERS}

----------------------------------------------------------------------------
(* Generic helpers *)

Range(s) == {s[i] : i \in 1..Len(s)}

RECURSIVE Gcd(_, _)
Gcd(a, b) == IF b = 0 THEN a ELSE Gcd(b, a % b)

RECURSIVE LcmUpTo(_)
LcmUpTo(n) == IF n <= 1 THEN 1 ELSE (LcmUpTo(n - 1) * n) \div Gcd(LcmUpTo(n - 1), n)

\* A MULTIPLE_ANSWERS score is p/c - m/i with 1 <= c, 1 <= i and c + i <= max_items.
ScoreScale == LcmUpTo(max_items - 1)

\* Row ids start at 1: 0 is an id no row has.
\* SQL NULL: a column never assigned.
NULL == "NULL"
\* What a call returns when it returns nothing, or raises.
NoResult == [none |-> TRUE]

----------------------------------------------------------------------------
(* Outcomes: the HTTP status and detail a call ends with.  A status of 500 *)
(* is an exception that is no HTTPException (an unhandled fault).          *)

Ok == [status |-> 200, detail |-> "OK"]
HTTPException(status_code, detail) == [status |-> status_code, detail |-> detail]
Fault(exception) == [status |-> 500, detail |-> exception]

QuizNotFound == HTTPException(404, "Quiz not found")
GameNotFound == HTTPException(404, "Game not found")
GameQuestionNotFound == HTTPException(400, "Question not found for game")
AlreadyPlayed == HTTPException(400, "You already played this game")
AlreadyFinished == HTTPException(400, "Game is already finished")
AlreadySkipped == HTTPException(400, "Question already skipped")
AlreadyAnswered == HTTPException(400, "Question already answered")
InvalidChoiceCardinality == HTTPException(400, "SINGLE_ANSWER does not support multiple answers")
InvalidChoice == HTTPException(400, "Choice not in choices list")
NotFinished == HTTPException(400, "Game is not finished yet")
PublishedQuiz == HTTPException(400, "Can't add questions to already published quiz")
TooManyQuestions == HTTPException(400, "Maximum number of questions per quiz is 10")
MultipleCorrect == HTTPException(400, "SINGLE_ANSWER can't have multiple correct answers")
NoCorrect == HTTPException(400, "There must be at least one correct answer")
\* The two exceptions of check_question_answered_or_skipped.
AlreadyResolved == {AlreadySkipped, AlreadyAnswered}

\* A call's reply: how it ended, what it returned, the tables as it left them.
Reply(outcome, result, state) ==
    [status |-> outcome.status, detail |-> outcome.detail, result |-> result, db |-> state]
\* The reply of a call that raises before it commits anything.
Raise(outcome) == Reply(outcome, NoResult, DB)
\* The outcome of a reply.
Outcome(reply) == [status |-> reply.status, detail |-> reply.detail]

----------------------------------------------------------------------------
(* sqlalchemy Result: a cursor over the rows a statement selected.  all()  *)
(* returns the rows left and exhausts the cursor; scalar() and first()     *)
(* return the first row left, or None (here <<>>) when none is left.       *)

Result(rows) == [rows |-> rows]
Result_all(result) == result.rows
Result_after_all(result) == [rows |-> <<>>]
Result_scalar(result) == IF result.rows = <<>> THEN <<>> ELSE <<Head(result.rows)>>

----------------------------------------------------------------------------
(* Quiz authoring *)

\* get_quiz: the quiz with this id that is not deleted, or none.
get_quiz(quiz_id) ==
    Result_scalar(Result(SelectSeq(quizzes, LAMBDA q : q.id = quiz_id /\ ~q.deleted)))

\* service_get_quiz_for_user / get_quiz_for_user: also filtered by owner.
select_quiz_for_user(quiz_id, user_id) ==
    SelectSeq(quizzes, LAMBDA q : q.id = quiz_id /\ q.user_id = user_id /\ ~q.deleted)

service_create_quiz(user_id) ==
    LET quiz == [id |-> Len(quizzes) + 1, published |-> FALSE, deleted |-> FALSE,
                 user_id |-> user_id]
    IN Reply(Ok, [id |-> quiz.id], [DB EXCEPT !.quizzes = Append(quizzes, quiz)])

service_publish_quiz(user_id, quiz_id) ==
    LET found == select_quiz_for_user(quiz_id, user_id)
    IN IF found = <<>> THEN Raise(QuizNotFound)
       ELSE Reply(Ok, NoResult, [DB EXCEPT !.quizzes[found[1].id].published = TRUE])

service_delete_quiz(user_id, quiz_id) ==
    LET found == select_quiz_for_user(quiz_id, user_id)
    IN IF found = <<>> THEN Raise(QuizNotFound)
       ELSE Reply(Ok, NoResult, [DB EXCEPT !.quizzes[found[1].id].deleted = TRUE])

\* validate_answers: Ok, or the exception it raises.
validate_answers(answers, question_type) ==
    LET correct_answers == Cardinality({i \in 1..Len(answers) : answers[i].is_correct})
    IN IF question_type = SINGLE_ANSWER /\ correct_answers > 1 THEN MultipleCorrect
       ELSE IF correct_answers = 0 THEN NoCorrect
       ELSE Ok

\* An Answer row's id: the question's id and the answer's position in it.
AnswerId(question_id, i) == <<question_id, i>>
BogusAnswerId == <<0, 0>>

\* Question(title, type, quiz_id, answers=[Answer(value, is_correct) ...]) as inserted.
NewQuestion(question_id, quiz_id, question_data) ==
    [id |-> question_id, title |-> question_data.title, type |-> question_data.type,
     quiz_id |-> quiz_id,
     answers |-> [i \in 1..Len(question_data.answers) |->
                    [id |-> AnswerId(question_id, i),
                     value |-> question_data.answers[i].value,
                     is_correct |-> question_data.answers[i].is_correct]]]

\* The id of the next Question row: the one after the greatest id in the table.  The
\* ids of the rows in the table are distinct, and a row added later has a greater id.
NextQuestionId ==
    1 + (IF questions = <<>> THEN 0
         ELSE CHOOSE m \in Range([i \in 1..Len(questions) |-> questions[i].id]) :
                  \A i \in 1..Len(questions) : questions[i].id <= m)

\* The first question of the batch that validate_answers rejects, 0 if none.
FirstInvalid(batch) ==
    LET bad == {i \in 1..Len(batch) : validate_answers(batch[i].answers, batch[i].type) # Ok}
    IN IF bad = {} THEN 0 ELSE CHOOSE i \in bad : \A j \in bad : i <= j

service_add_questions(user_id, quiz_id, questions_data) ==
    LET found == select_quiz_for_user(quiz_id, user_id)
    IN IF found = <<>> THEN Raise(Fault("IndexError"))
       ELSE IF found[1].published THEN Raise(PublishedQuiz)
       ELSE IF Len(questions_data) > 10 THEN Raise(TooManyQuestions)
       ELSE IF FirstInvalid(questions_data) # 0
       THEN Raise(validate_answers(questions_data[FirstInvalid(questions_data)].answers,
                                   questions_data[FirstInvalid(questions_data)].type))
       ELSE Reply(Ok, NoResult,
                  [DB EXCEPT !.questions = questions \o
                       [i \in 1..Len(questions_data) |->
                           NewQuestion(NextQuestionId + i - 1, found[1].id, questions_data[i])]])

----------------------------------------------------------------------------
(* Question sequencer *)

\* paginate_questions: the quiz's question at position offset, or none.
paginate_questions(quiz_id, offset) ==
    LET rows == SelectSeq(questions, LAMBDA q : q.quiz_id = quiz_id)
    IN Result_scalar(Result(SubSeq(rows, offset + 1, Len(rows))))

\* get_question: the rows of the question with this id.
get_question(question_id) ==
    SelectSeq(questions, LAMBDA q : q.id = question_id)

----------------------------------------------------------------------------
(* Editing questions.  An UpdateQuestionSchema field that is None is NULL   *)
(* here, and answers that are None are the empty list (the schema accepts   *)
(* no list of fewer than min_items answers, and the code tests the fields   *)
(* for truth).                                                              *)

PublishedQuizDelete == HTTPException(400, "Can't delete question from published quiz")
PublishedQuizUpdate == HTTPException(400, "Can't update question from published quiz")

\* The GameQuestion rows whose foreign key question_id refers to the question.
ReferencedBy(question_id) ==
    SelectSeq(gameQuestions, LAMBDA gq : gq.question_id = question_id)

\* A delete on a table without the foreign key (not the code: a variant to compare
\* with).
service_delete_question_unchecked(user_id, quiz_id, question_id) ==
    LET found == select_quiz_for_user(quiz_id, user_id)
        question == get_question(question_id)
    IN IF found = <<>> THEN Raise(Fault("IndexError"))
       ELSE IF found[1].published THEN Raise(PublishedQuizDelete)
       ELSE IF question = <<>> THEN Raise(Fault("IndexError"))
       ELSE Reply(Ok, NoResult,
                  [DB EXCEPT !.questions = SelectSeq(questions, LAMBDA q : q.id # question_id)])

\* service_delete_question.  The quiz is looked up by quiz_id and user, the question
\* by question_id alone; the DELETE fails on the foreign key of a GameQuestion that
\* refers to the question.
service_delete_question(user_id, quiz_id, question_id) ==
    LET found == select_quiz_for_user(quiz_id, user_id)
        question == get_question(question_id)
    IN IF found = <<>> THEN Raise(Fault("IndexError"))
       ELSE IF found[1].published THEN Raise(PublishedQuizDelete)
       ELSE IF question = <<>> THEN Raise(Fault("IndexError"))
       ELSE IF ReferencedBy(question_id) # <<>> THEN Raise(Fault("IntegrityError"))
       ELSE Reply(Ok, NoResult,
                  [DB EXCEPT !.questions = SelectSeq(questions, LAMBDA q : q.id # question_id)])

\* The greatest position an Answer row of the question has had: the rows that replace
\* its answers get the ids after it.
LastAnswer(question) ==
    CHOOSE m \in 0..(2 * max_items) :
        /\ \A i \in 1..Len(question.answers) : question.answers[i].id[2] <= m
        /\ m = 0 \/ \E i \in 1..Len(question.answers) : question.answers[i].id[2] = m

\* [Answer(value=answer.value, is_correct=answer.is_correct) for answer in ...]
NewAnswers(question, answers) ==
    [i \in 1..Len(answers) |->
        [id |-> AnswerId(question.id, LastAnswer(question) + i),
         value |-> answers[i].value, is_correct |-> answers[i].is_correct]]

\* A validation that skips the update of answers alone (not the code: a variant to
\* compare with).
update_validation_type_only(question, question_data) ==
    IF question_data.type # NULL /\ question_data.answers # <<>>
    THEN validate_answers(question_data.answers, question_data.type)
    ELSE IF question_data.type # NULL
    THEN validate_answers(question.answers, question_data.type)
    ELSE Ok

\* The validate_answers call of the branch service_update_question takes.  In the
\* second branch question_data.type != question.type compares an Enum member with the
\* stored string and is always true.
update_validation(question, question_data) ==
    IF question_data.type # NULL /\ question_data.answers # <<>>
    THEN validate_answers(question_data.answers, question_data.type)
    ELSE IF question_data.type # NULL
    THEN validate_answers(question.answers, question_data.type)
    ELSE IF question_data.answers # <<>>
    THEN validate_answers(question_data.answers, question.type)
    ELSE Ok

\* The question as the branch taken and the title assignment leave it.
updated_question(question, question_data) ==
    LET typed == IF question_data.type # NULL /\ question_data.answers # <<>>
                 THEN [question EXCEPT !.answers = NewAnswers(question, question_data.answers),
                                       !.type = question_data.type]
                 ELSE IF question_data.type # NULL
                 THEN [question EXCEPT !.type = question_data.type]
                 ELSE IF question_data.answers # <<>>
                 THEN [question EXCEPT !.answers = NewAnswers(question, question_data.answers)]
                 ELSE question
    IN IF question_data.title # NULL THEN [typed EXCEPT !.title = question_data.title]
       ELSE typed

\* service_update_question.  The quiz is looked up by quiz_id and user, the question
\* by question_id alone.
service_update_question(user_id, quiz_id, question_id, question_data) ==
    LET found == select_quiz_for_user(quiz_id, user_id)
        question == get_question(question_id)
    IN IF found = <<>> THEN Raise(Fault("IndexError"))
       ELSE IF found[1].published THEN Raise(PublishedQuizUpdate)
       ELSE IF question = <<>> THEN Raise(Fault("IndexError"))
       ELSE IF update_validation(question[1], question_data) # Ok
       THEN Raise(update_validation(question[1], question_data))
       ELSE Reply(Ok, NoResult,
                  [DB EXCEPT !.questions =
                       [i \in 1..Len(questions) |->
                           IF questions[i].id = question_id
                           THEN updated_question(question[1], question_data)
                           ELSE questions[i]]])

\* Where the store keeps an updated row.  An UPDATE that changes a column of the
\* questions table writes a new version of the row, which a scan of the table meets
\* where the old one was or after every other row; a statement without ORDER BY
\* returns the rows as the scan meets them.
Stored(reply, question_id, moved) ==
    LET before == get_question(question_id)
        after == SelectSeq(reply.db.questions, LAMBDA q : q.id = question_id)
        others == SelectSeq(reply.db.questions, LAMBDA q : q.id # question_id)
    IN IF /\ moved
          /\ before # <<>>
          /\ after # <<>>
          /\ (before[1].title # after[1].title \/ before[1].type # after[1].type)
       THEN [reply EXCEPT !.db.questions = others \o after]
       ELSE reply

----------------------------------------------------------------------------
(* Game state machine *)

\* An update that stores the answer's score as the game's score (not the code: a
\* variant to compare with).
answered_game_sets_score(game, score) == [game EXCEPT !.score = score, !.offset = game.offset + 1]
\* An answer that leaves the offset where it is (not the code: a variant to compare
\* with).
answered_game_keeps_offset(game, score) == [game EXCEPT !.score = game.score + score]
\* update(Game).values(score=game.score + score, offset=game.offset + 1)
answered_game(game, score) == [game EXCEPT !.score = game.score + score, !.offset = game.offset + 1]
\* A skip that also clears the score (not the code: a variant to compare with).
skipped_game_clears_score(game) == [game EXCEPT !.score = 0, !.offset = game.offset + 1]
\* A skip that leaves the offset where it is (not the code: a variant to compare with).
skipped_game_keeps_offset(game) == game
\* A skip that costs a point (not the code: a variant to compare with).
skipped_game_with_penalty(game) ==
    [game EXCEPT !.score = game.score - ScoreScale, !.offset = game.offset + 1]
\* update(Game).values(offset=game.offset + 1)
skipped_game(game) == [game EXCEPT !.offset = game.offset + 1]
\* A finish that also moves the offset (not the code: a variant to compare with).
finished_game_moves_offset(game) == [game EXCEPT !.finished = TRUE, !.offset = game.offset + 1]
\* update(Game).values(finished=True)
finished_game(game) == [game EXCEPT !.finished = TRUE]

\* A look-up by game id alone (not the code: a variant to compare with).
get_game_any_user(game_id, user_id) ==
    LET game_list == SelectSeq(games, LAMBDA g : g.id = game_id)
    IN IF game_list = <<>> THEN <<>> ELSE <<game_list[1]>>

\* get_game: the game with this id owned by this user, or none.
get_game(game_id, user_id) ==
    LET game_list == SelectSeq(games, LAMBDA g :
            /\ g.id = game_id
            /\ g.user_id = user_id
            /\ \E i \in 1..Len(quizzes) : quizzes[i].id = g.quiz_id)
    IN IF game_list = <<>> THEN <<>> ELSE <<game_list[1]>>

\* A Start that does not look at published (not the code: a variant to compare with).
service_start_unpublished(user_id, quiz_id) ==
    LET quiz == get_quiz(quiz_id)
    IN IF quiz = <<>> THEN Raise(QuizNotFound)
       ELSE IF quiz[1].deleted THEN Raise(QuizNotFound)
       ELSE LET existing_game ==
                    Result(SelectSeq(games, LAMBDA g : g.quiz_id = quiz_id /\ g.user_id = user_id))
            IN IF Result_all(existing_game) = <<>>
               THEN LET new_game == [id |-> Len(games) + 1, finished |-> FALSE, score |-> 0,
                                     offset |-> 0, quiz_id |-> quiz_id, user_id |-> user_id]
                    IN Reply(Ok, [id |-> new_game.id], [DB EXCEPT !.games = Append(games, new_game)])
               ELSE LET row == Result_scalar(Result_after_all(existing_game))
                    IN IF row = <<>> THEN Raise(Fault("AttributeError"))
                       ELSE IF row[1].finished THEN Raise(AlreadyPlayed)
                       ELSE Reply(Ok, [id |-> row[1].id], DB)

service_start(user_id, quiz_id) ==
    LET quiz == get_quiz(quiz_id)
    IN IF quiz = <<>> THEN Raise(QuizNotFound)
       ELSE IF quiz[1].deleted \/ ~quiz[1].published THEN Raise(QuizNotFound)
       ELSE LET existing_game ==
                    Result(SelectSeq(games, LAMBDA g : g.quiz_id = quiz_id /\ g.user_id = user_id))
            IN IF Result_all(existing_game) = <<>>
               THEN LET new_game == [id |-> Len(games) + 1, finished |-> FALSE, score |-> 0,
                                     offset |-> 0, quiz_id |-> quiz_id, user_id |-> user_id]
                    IN Reply(Ok, [id |-> new_game.id], [DB EXCEPT !.games = Append(games, new_game)])
               ELSE LET row == Result_scalar(Result_after_all(existing_game))
                    IN IF row = <<>> THEN Raise(Fault("AttributeError"))
                       ELSE IF row[1].finished THEN Raise(AlreadyPlayed)
                       ELSE Reply(Ok, [id |-> row[1].id], DB)

service_next_question(user_id, game_id) ==
    LET game == get_game(game_id, user_id)
    IN IF game = <<>> THEN Raise(GameNotFound)
       ELSE IF game[1].finished THEN Raise(AlreadyFinished)
       ELSE LET question == paginate_questions(game[1].quiz_id, game[1].offset)
            IN IF question = <<>>
               THEN Reply(AlreadyFinished, NoResult,
                          [DB EXCEPT !.games[game[1].id] = finished_game(game[1])])
               ELSE LET game_question_result ==
                            Result_scalar(Result(SelectSeq(gameQuestions, LAMBDA gq :
                                gq.question_id = question[1].id /\ gq.game_id = game_id)))
                        new_game_question ==
                            [id |-> Len(gameQuestions) + 1, answered |-> FALSE,
                             skipped |-> FALSE, answer_score |-> NULL,
                             game_id |-> game_id, question_id |-> question[1].id]
                    IN IF game_question_result = <<>>
                       THEN Reply(Fault("AttributeError"), NoResult,
                                  [DB EXCEPT !.gameQuestions =
                                       Append(gameQuestions, new_game_question)])
                       ELSE Reply(Ok, [id |-> game_question_result[1].id,
                                       type |-> question[1].type,
                                       title |-> question[1].title,
                                       answers |-> question[1].answers], DB)

\* A response that is the service's dict as it is (not the code: a variant to compare
\* with).
NextQuestionResponse_unfiltered(result) == result

\* NextQuestionResponse: the response model the endpoint serialises the reply with.
NextQuestionResponse(result) ==
    [id |-> result.id, type |-> result.type, title |-> result.title,
     answers |-> [i \in 1..Len(result.answers) |->
                    [id |-> result.answers[i].id, value |-> result.answers[i].value]]]

\* get_game_question: the GameQuestion with this id under this game, or none.
get_game_question(game_id, question_id) ==
    Result_scalar(Result(SelectSeq(gameQuestions, LAMBDA gq :
        gq.id = question_id /\ gq.game_id = game_id)))

\* A check that looks at skipped only (not the code: a variant to compare with).
check_skipped_only(game_question) ==
    IF game_question.skipped THEN AlreadySkipped ELSE Ok
\* check_question_answered_or_skipped: Ok, or the exception it raises.
check_question_answered_or_skipped(game_question) ==
    IF game_question.skipped THEN AlreadySkipped
    ELSE IF game_question.answered THEN AlreadyAnswered
    ELSE Ok

----------------------------------------------------------------------------
(* Scoring rule *)

\* What the scoring rule ends with: a score, or an exception.
Scored(score) == [outcome |-> Ok, score |-> score]
Raised(outcome) == [outcome |-> outcome, score |-> 0]

\* A loop that passes over the ids that are no answer of the question (not the code:
\* a variant to compare with).
RECURSIVE count_choices_skips_unknown(_, _, _, _, _, _)
count_choices_skips_unknown(user_choices, i, correct_answers_set, false_answers_set, plus_score, minus_score) ==
    IF i > Len(user_choices)
    THEN [raised |-> FALSE, plus_score |-> plus_score, minus_score |-> minus_score]
    ELSE IF user_choices[i] \in correct_answers_set
    THEN count_choices_skips_unknown(user_choices, i + 1, correct_answers_set,
                                     false_answers_set, plus_score + 1, minus_score)
    ELSE IF user_choices[i] \in false_answers_set
    THEN count_choices_skips_unknown(user_choices, i + 1, correct_answers_set,
                                     false_answers_set, plus_score, minus_score + 1)
    ELSE count_choices_skips_unknown(user_choices, i + 1, correct_answers_set,
                                     false_answers_set, plus_score, minus_score)

\* The loop over user_choices of the MULTIPLE_ANSWERS branch, from choice i on.
RECURSIVE count_choices(_, _, _, _, _, _)
count_choices(user_choices, i, correct_answers_set, false_answers_set, plus_score, minus_score) ==
    IF i > Len(user_choices)
    THEN [raised |-> FALSE, plus_score |-> plus_score, minus_score |-> minus_score]
    ELSE IF user_choices[i] \in correct_answers_set
    THEN count_choices(user_choices, i + 1, correct_answers_set, false_answers_set,
                       plus_score + 1, minus_score)
    ELSE IF user_choices[i] \in false_answers_set
    THEN count_choices(user_choices, i + 1, correct_answers_set, false_answers_set,
                       plus_score, minus_score + 1)
    ELSE [raised |-> TRUE, plus_score |-> plus_score, minus_score |-> minus_score]

\* A scoring rule that gives 0 for an incorrect single answer (not the code: a variant
\* to compare with).
calculate_answer_score_no_penalty(user_choices, actual_answers, question_type) ==
    LET correct_answers_set == {a.id : a \in {b \in Range(actual_answers) : b.is_correct}}
        false_answers_set == {a.id : a \in {b \in Range(actual_answers) : ~b.is_correct}}
    IN IF question_type = SINGLE_ANSWER
       THEN IF user_choices = <<>> THEN Raised(Fault("IndexError"))
            ELSE IF user_choices[1] \in correct_answers_set THEN Scored(1 * ScoreScale)
            ELSE IF user_choices[1] \in false_answers_set THEN Scored(0)
            ELSE Raised(InvalidChoice)
       ELSE Raised(Fault("ValueError"))

\* A scoring rule that divides both counts by the number of correct answers (not the
\* code: a variant to compare with).
calculate_answer_score_one_divisor(user_choices, actual_answers, question_type) ==
    LET correct_answers_set == {a.id : a \in {b \in Range(actual_answers) : b.is_correct}}
        false_answers_set == {a.id : a \in {b \in Range(actual_answers) : ~b.is_correct}}
        counted == count_choices(user_choices, 1, correct_answers_set, false_answers_set, 0, 0)
    IN IF question_type # MULTIPLE_ANSWERS THEN Raised(Fault("ValueError"))
       ELSE IF counted.raised THEN Raised(InvalidChoice)
       ELSE IF Cardinality(correct_answers_set) = 0 THEN Raised(Fault("ZeroDivisionError"))
       ELSE Scored((counted.plus_score * ScoreScale) \div Cardinality(correct_answers_set)
                   - (counted.minus_score * ScoreScale) \div Cardinality(correct_answers_set))

\* calculate_answer_score: the score in units of 1/ScoreScale, or the exception raised.
calculate_answer_score(user_choices, actual_answers, question_type) ==
    LET correct_answers_set == {a.id : a \in {b \in Range(actual_answers) : b.is_correct}}
        false_answers_set == {a.id : a \in {b \in Range(actual_answers) : ~b.is_correct}}
    IN IF question_type = SINGLE_ANSWER
       THEN IF user_choices = <<>> THEN Raised(Fault("IndexError"))
            ELSE IF user_choices[1] \in correct_answers_set THEN Scored(1 * ScoreScale)
            ELSE IF user_choices[1] \in false_answers_set THEN Scored((-1) * ScoreScale)
            ELSE Raised(InvalidChoice)
       ELSE IF question_type = MULTIPLE_ANSWERS
       THEN LET counted == count_choices(user_choices, 1, correct_answers_set,
                                         false_answers_set, 0, 0)
            IN IF counted.raised THEN Raised(InvalidChoice)
               ELSE IF Cardinality(correct_answers_set) = 0 THEN Raised(Fault("ZeroDivisionError"))
               ELSE IF Cardinality(false_answers_set) = 0 THEN Raised(Fault("ZeroDivisionError"))
               ELSE Scored((counted.plus_score * ScoreScale) \div Cardinality(correct_answers_set)
                           - (counted.minus_score * ScoreScale) \div Cardinality(false_answers_set))
       ELSE Raised(Fault("ValueError"))

\* Scoring without the cardinality check (not the code: a variant to compare with).
score_answer_unchecked(question, choices) ==
    calculate_answer_score(choices, question.answers, question.type)
\* service_answer_question, from the cardinality check to the score.
score_answer(question, choices) ==
    IF question.type = SINGLE_ANSWER /\ Len(choices) > 1
    THEN Raised(InvalidChoiceCardinality)
    ELSE calculate_answer_score(choices, question.answers, question.type)

----------------------------------------------------------------------------
(* Answer, Skip, GetResults *)

service_answer_question(user_id, game_id, question_id, choices) ==
    LET game == get_game(game_id, user_id)
    IN IF game = <<>> THEN Raise(GameNotFound)
       ELSE LET game_question == get_game_question(game_id, question_id)
            IN IF game_question = <<>> THEN Raise(GameQuestionNotFound)
               ELSE IF check_question_answered_or_skipped(game_question[1]) # Ok
               THEN Raise(check_question_answered_or_skipped(game_question[1]))
               ELSE LET question == get_question(game_question[1].question_id)
                    IN IF question = <<>> THEN Raise(Fault("IndexError"))
                       ELSE LET scored == score_answer(question[1], choices)
                            IN IF scored.outcome # Ok THEN Raise(scored.outcome)
                               ELSE Reply(Ok, NoResult,
                                      [DB EXCEPT
                                         !.games[game[1].id] = answered_game(game[1], scored.score),
                                         !.gameQuestions[game_question[1].id].answer_score =
                                             scored.score,
                                         !.gameQuestions[game_question[1].id].answered = TRUE,
                                         !.gameAnswers = gameAnswers \o
                                             [i \in 1..Len(choices) |->
                                                 [choice |-> choices[i],
                                                  game_question_id |-> game_question[1].id]]])

service_skip_question(user_id, game_id, question_id) ==
    LET game == get_game(game_id, user_id)
    IN IF game = <<>> THEN Raise(GameNotFound)
       ELSE LET game_question == get_game_question(game_id, question_id)
            IN IF game_question = <<>> THEN Raise(GameQuestionNotFound)
               ELSE IF check_question_answered_or_skipped(game_question[1]) # Ok
               THEN Raise(check_question_answered_or_skipped(game_question[1]))
               ELSE Reply(Ok, NoResult,
                      [DB EXCEPT
                         !.gameQuestions[game_question[1].id].answer_score = 0,
                         !.gameQuestions[game_question[1].id].skipped = TRUE,
                         !.games[game[1].id] = skipped_game(game[1])])

\* The rows of select(GameQuestion.answer_score, Question.title).join(Question).
question_stats_rows(game_id) ==
    LET rows == SelectSeq(gameQuestions, LAMBDA gq :
                    gq.game_id = game_id /\ get_question(gq.question_id) # <<>>)
    IN [i \in 1..Len(rows) |->
           [answer_score |-> rows[i].answer_score,
            title |-> get_question(rows[i].question_id)[1].title]]

\* Results that do not look at finished (not the code: a variant to compare with).
get_results_unchecked(game, question_stats_result) ==
    LET max_score == Len(question_stats_result)
    IN IF max_score = 0 THEN Raise(Fault("ZeroDivisionError"))
       ELSE Reply(Ok, [score |-> game.score,
                       score_percentage |-> [num |-> game.score * 100, den |-> max_score],
                       question_stats |-> question_stats_result], DB)
\* service_get_results past get_game.  score_percentage is the fraction num/den, in
\* units of 1/ScoreScale like every score.
get_results(game, question_stats_result) ==
    IF ~game.finished THEN Raise(NotFinished)
    ELSE LET max_score == Len(question_stats_result)
         IN IF max_score = 0 THEN Raise(Fault("ZeroDivisionError"))
            ELSE Reply(Ok, [score |-> game.score,
                            score_percentage |-> [num |-> game.score * 100, den |-> max_score],
                            question_stats |-> question_stats_result], DB)

service_get_results(user_id, game_id) ==
    LET game == get_game(game_id, user_id)
    IN IF game = <<>> THEN Raise(GameNotFound)
       ELSE get_results(game[1], question_stats_rows(game_id))

----------------------------------------------------------------------------
(* The requests of the model.  An argument varies only where the handler   *)
(* reads it: a question id only under a game the caller owns, a choices    *)
(* list only for a GameQuestion of that game.                              *)

\* The payloads add-questions is called with: three that validate_answers accepts
\* (the last one has no incorrect answer) and two that it rejects.
AnswerSchemas(flags) == [i \in 1..Len(flags) |-> [value |-> i, is_correct |-> flags[i]]]
QuestionPayloads ==
    { [title |-> "S", type |-> SINGLE_ANSWER, answers |-> AnswerSchemas(<<TRUE, FALSE>>)],
      [title |-> "M", type |-> MULTIPLE_ANSWERS,
       answers |-> AnswerSchemas(<<TRUE, TRUE, FALSE, FALSE>>)],
      [title |-> "A", type |-> MULTIPLE_ANSWERS, answers |-> AnswerSchemas(<<TRUE, TRUE>>)],
      [title |-> "X", type |-> SINGLE_ANSWER, answers |-> AnswerSchemas(<<TRUE, TRUE>>)],
      [title |-> "Z", type |-> MULTIPLE_ANSWERS, answers |-> AnswerSchemas(<<FALSE, FALSE>>)] }
QuestionsSchemas == UNION {[1..n -> QuestionPayloads] : n \in 1..MaxBatch}

\* The answer ids of the question of a GameQuestion.
AnswerIds(question_id) ==
    LET game_question == SelectSeq(gameQuestions, LAMBDA gq : gq.id = question_id)
        question == IF game_question = <<>> THEN <<>>
                    ELSE get_question(game_question[1].question_id)
    IN IF question = <<>> THEN <<>>
       ELSE [i \in 1..Len(question[1].answers) |-> question[1].answers[i].id]

\* The choice ids a caller submits for a GameQuestion: the first and the last answer
\* of its question, and an id that is no answer of it.
ChoiceIds(question_id) ==
    LET ids == AnswerIds(question_id)
    IN IF ids = <<>> THEN {BogusAnswerId} ELSE {ids[1], ids[Len(ids)], BogusAnswerId}

ChoiceLists(game_id, question_id) ==
    LET game_question == get_game_question(game_id, question_id)
    IN IF game_question = <<>> THEN {<<>>}
       ELSE IF game_question[1].answered \/ game_question[1].skipped
       THEN UNION {[1..n -> ChoiceIds(question_id)] : n \in 0..1}
       ELSE UNION {[1..n -> ChoiceIds(question_id)] : n \in 0..MaxChoices}

QuizIds == 0..Len(quizzes)
GameIds == 0..Len(games)
GameQuestionIds(user_id, game_id) ==
    IF get_game(game_id, user_id) = <<>> THEN {0} ELSE 0..Len(gameQuestions)

----------------------------------------------------------------------------
(* The calls *)

\* A call commits the tables its reply leaves.
Commit(reply) ==
    /\ quizzes' = reply.db.quizzes
    /\ questions' = reply.db.questions
    /\ games' = reply.db.games
    /\ gameQuestions' = reply.db.gameQuestions
    /\ gameAnswers' = reply.db.gameAnswers
    /\ UNCHANGED <<calls, isolation_level>>

\* No call in flight: every call runs alone, from its first read to its commit.
NoCalls ==
    /\ calls = <<>>
    /\ isolation_level = "READ COMMITTED"

Init ==
    /\ quizzes = <<>>
    /\ questions = <<>>
    /\ games = <<>>
    /\ gameQuestions = <<>>
    /\ gameAnswers = <<>>
    /\ NoCalls

CreateQuiz ==
    \E u \in Authors :
        /\ Len(quizzes) + 1 \in QuizPool
        /\ Commit(service_create_quiz(u))
AddQuestions ==
    \E u \in Users, q \in QuizIds, b \in QuestionsSchemas :
        /\ Len(questions) + Len(b) <= MaxQuestions
        /\ Commit(service_add_questions(u, q, b))
PublishQuiz == \E u \in Users, q \in QuizIds : Commit(service_publish_quiz(u, q))
DeleteQuiz == \E u \in Users, q \in QuizIds : Commit(service_delete_quiz(u, q))
Start ==
    \E u \in Users, q \in QuizIds :
        /\ \A i \in 1..Len(service_start(u, q).db.games) : i \in GamePool
        /\ Commit(service_start(u, q))
NextQuestion == \E u \in Users, g \in GameIds : Commit(service_next_question(u, g))
Answer ==
    \E u \in Users, g \in GameIds :
        \E gq \in GameQuestionIds(u, g) :
            \E choices \in ChoiceLists(g, gq) : Commit(service_answer_question(u, g, gq, choices))
Skip ==
    \E u \in Users, g \in GameIds :
        \E gq \in GameQuestionIds(u, g) : Commit(service_skip_question(u, g, gq))
GetResults == \E u \in Users, g \in GameIds : Commit(service_get_results(u, g))

Next ==
    \/ CreateQuiz
    \/ AddQuestions
    \/ PublishQuiz
    \/ DeleteQuiz
    \/ Start
    \/ NextQuestion
    \/ Answer
    \/ Skip
    \/ GetResults

Spec == Init /\ [][Next]_vars

----------------------------------------------------------------------------
(* Properties of the game session engine *)

\* The quizzes Start accepts: existing, published and not deleted.
Playable(quiz_id) ==
    \E k \in 1..Len(quizzes) :
        quizzes[k].id = quiz_id /\ quizzes[k].published /\ ~quizzes[k].deleted

\* C1: while a game of a user for a published, non-deleted quiz is in progress,
\* another Start by that user for that quiz succeeds, returns the id of that game
\* (the id the first Start returned) and changes no table: no Game row is added and
\* the game's score, offset and finished stay as they are.
C1_StartIdempotent ==
    \A u \in Users, q \in QuizIds :
        \A i \in 1..Len(games) :
            (games[i].user_id = u /\ games[i].quiz_id = q /\ ~games[i].finished /\ Playable(q))
            => LET reply == service_start(u, q)
               IN /\ Outcome(reply) = Ok
                  /\ reply.result = [id |-> games[i].id]
                  /\ reply.db = DB

\* The game with this id, if this user owns it.
OwnedGame(user_id, game_id) ==
    SelectSeq(games, LAMBDA g : g.id = game_id /\ g.user_id = user_id)
\* The questions of a quiz, in the order they were added.
QuestionsOf(quiz_id) == SelectSeq(questions, LAMBDA q : q.quiz_id = quiz_id)
\* The GameQuestion rows of a game, and those of them that are resolved.
GameQuestionsOf(game_id) == SelectSeq(gameQuestions, LAMBDA gq : gq.game_id = game_id)
Resolved(game_question) == game_question.answered \/ game_question.skipped
ResolvedOf(game_id) == SelectSeq(GameQuestionsOf(game_id), Resolved)
\* The choices recorded for a GameQuestion, in the order they were submitted.
ChoicesOf(game_question_id) ==
    LET rows == SelectSeq(gameAnswers, LAMBDA ga : ga.game_question_id = game_question_id)
    IN [i \in 1..Len(rows) |-> rows[i].choice]
\* The question row with this id.
QuestionRow(question_id) == CHOOSE q \in Range(questions) : q.id = question_id

\* C2: for an in-progress game with a question left at position offset, NextQuestion
\* succeeds and, called again with no Answer or Skip in between, succeeds again with
\* the same GameQuestion id, also when the first call is the one that creates the
\* GameQuestion; afterwards exactly one GameQuestion row exists for the game and the
\* question.
C2_NextQuestionPeek ==
    [][\A u \in Users, g \in GameIds :
          (/\ OwnedGame(u, g) # <<>>
           /\ ~games[g].finished
           /\ games[g].offset < Len(QuestionsOf(games[g].quiz_id))
           /\ Commit(service_next_question(u, g)))
          => /\ Outcome(service_next_question(u, g)) = Ok
             /\ Outcome(service_next_question(u, g)') = Ok
             /\ NextQuestionResponse(service_next_question(u, g).result).id
                    = NextQuestionResponse(service_next_question(u, g)'.result).id
             /\ Len(SelectSeq(gameQuestions', LAMBDA gq :
                        /\ gq.game_id = g
                        /\ gq.question_id =
                               QuestionsOf(games[g].quiz_id)[games[g].offset + 1].id)) = 1
      ]_vars

----------------------------------------------------------------------------
(* Offsets *)

\* The offsets of the games that exist now, in the tables a reply leaves.
OffsetsAfter(reply) == [i \in 1..Len(games) |-> reply.db.games[i].offset]
OffsetsNow == [i \in 1..Len(games) |-> games[i].offset]
KeepsOffsets(reply) ==
    /\ Len(reply.db.games) >= Len(games)
    /\ OffsetsAfter(reply) = OffsetsNow
\* A successful call on game_id moves that game's offset by one and no other offset;
\* a failed one moves none.
StepsOffset(reply, game_id) ==
    IF Outcome(reply) = Ok
    THEN /\ Len(reply.db.games) = Len(games)
         /\ OffsetsAfter(reply) = [OffsetsNow EXCEPT ![game_id] = @ + 1]
    ELSE KeepsOffsets(reply)

\* C3: no step decreases the offset of a game; every successful Answer or Skip
\* increases the offset of its game by exactly 1 and moves no other offset; no
\* other call (Start, NextQuestion, GetResults, the authoring calls, any failed
\* Answer or Skip) changes an offset.
C3_OffsetSteps ==
    /\ [](\A u \in Users :
            /\ KeepsOffsets(service_create_quiz(u))
            /\ \A q \in QuizIds :
                  /\ KeepsOffsets(service_start(u, q))
                  /\ KeepsOffsets(service_publish_quiz(u, q))
                  /\ KeepsOffsets(service_delete_quiz(u, q))
                  /\ \A b \in QuestionsSchemas : KeepsOffsets(service_add_questions(u, q, b))
            /\ \A g \in GameIds :
                  /\ KeepsOffsets(service_next_question(u, g))
                  /\ KeepsOffsets(service_get_results(u, g))
                  /\ \A gq \in GameQuestionIds(u, g) :
                        /\ StepsOffset(service_skip_question(u, g, gq), g)
                        /\ \A choices \in ChoiceLists(g, gq) :
                              StepsOffset(service_answer_question(u, g, gq, choices), g))
    /\ [][\A i \in 1..Len(games) :
             /\ i <= Len(games')
             /\ games'[i].offset >= games[i].offset]_vars

\* A game that has been moved twice, once by an Answer and once by a Skip.
C3_Witness ==
    \E i \in 1..Len(games) :
        /\ games[i].offset = 2
        /\ \E k \in 1..Len(gameQuestions) :
              gameQuestions[k].game_id = games[i].id /\ gameQuestions[k].answered
        /\ \E k \in 1..Len(gameQuestions) :
              gameQuestions[k].game_id = games[i].id /\ gameQuestions[k].skipped

----------------------------------------------------------------------------
(* Resolving a GameQuestion *)

\* C4: a GameQuestion is resolved at most once.  Once it is answered or skipped,
\* every Skip and every Answer (whatever the choices) its game's owner sends for it
\* fails with "already skipped" or "already answered" and leaves every table as it
\* is; no step changes a resolved GameQuestion; and no GameQuestion is answered and
\* skipped at the same time.
C4_ResolvedOnce ==
    /\ [](/\ \A k \in 1..Len(gameQuestions) :
                ~(gameQuestions[k].answered /\ gameQuestions[k].skipped)
          /\ \A u \in Users, g \in GameIds :
                \A k \in 1..Len(gameQuestions) :
                    (/\ OwnedGame(u, g) # <<>>
                     /\ gameQuestions[k].game_id = g
                     /\ Resolved(gameQuestions[k]))
                    => /\ Outcome(service_skip_question(u, g, k)) \in AlreadyResolved
                       /\ service_skip_question(u, g, k).db = DB
                       /\ \A choices \in ChoiceLists(g, k) :
                             /\ Outcome(service_answer_question(u, g, k, choices))
                                    \in AlreadyResolved
                             /\ service_answer_question(u, g, k, choices).db = DB)
    /\ [][\A k \in 1..Len(gameQuestions) :
             Resolved(gameQuestions[k])
             => k <= Len(gameQuestions') /\ gameQuestions'[k] = gameQuestions[k]]_vars

\* An answered GameQuestion and a skipped one exist, so both kinds of resolved
\* GameQuestion have been sent the calls above.
C4_Witness ==
    /\ \E k \in 1..Len(gameQuestions) :
          gameQuestions[k].answered /\ ChoicesOf(k) # <<>>
    /\ \E k \in 1..Len(gameQuestions) : gameQuestions[k].skipped

----------------------------------------------------------------------------
(* Finishing a game *)

\* The number of questions of the quiz of a game.
QuestionCount(game_id) == Len(QuestionsOf(games[game_id].quiz_id))

\* C5 as stated: once the N questions (N >= 1) of a game's quiz have been resolved
\* by N successful Answer/Skip calls, finished is true and NextQuestion fails with
\* "already finished"; and a NextQuestion that finds the sequencer exhausted sets
\* finished, leaves the offset and fails with "already finished".
C5_FinishedAfterLastResolve ==
    \A u \in Users, g \in GameIds :
        OwnedGame(u, g) # <<>>
        => /\ (QuestionCount(g) >= 1 /\ Len(ResolvedOf(g)) = QuestionCount(g))
              => /\ games[g].finished
                 /\ Outcome(service_next_question(u, g)) = AlreadyFinished
           /\ (~games[g].finished /\ paginate_questions(games[g].quiz_id, games[g].offset) = <<>>)
              => /\ Outcome(service_next_question(u, g)) = AlreadyFinished
                 /\ service_next_question(u, g).db =
                        [DB EXCEPT !.games[g].finished = TRUE]

\* C5, as the code has it: Answer and Skip never set finished, so after the N
\* successful Answer/Skip calls that resolve the N questions of the quiz the offset is
\* N and finished is still false.  The next NextQuestion finds the sequencer exhausted,
\* sets finished, changes nothing else (the offset stays N) and fails with "already
\* finished"; every NextQuestion on a finished game fails with "already finished" and
\* changes nothing.  A finished game has offset N.
C5_FinishedByNextQuestion ==
    \A u \in Users, g \in GameIds :
        OwnedGame(u, g) # <<>>
        => /\ \A gq \in GameQuestionIds(u, g) :
                 /\ service_skip_question(u, g, gq).db.games[g].finished = games[g].finished
                 /\ \A choices \in ChoiceLists(g, gq) :
                       service_answer_question(u, g, gq, choices).db.games[g].finished
                           = games[g].finished
           /\ (~games[g].finished /\ Len(ResolvedOf(g)) = QuestionCount(g))
              => /\ games[g].offset = QuestionCount(g)
                 /\ paginate_questions(games[g].quiz_id, games[g].offset) = <<>>
           /\ (~games[g].finished /\ paginate_questions(games[g].quiz_id, games[g].offset) = <<>>)
              => /\ Outcome(service_next_question(u, g)) = AlreadyFinished
                 /\ service_next_question(u, g).db =
                        [DB EXCEPT !.games[g].finished = TRUE]
           /\ games[g].finished
              => /\ games[g].offset = QuestionCount(g)
                 /\ Outcome(service_next_question(u, g)) = AlreadyFinished
                 /\ service_next_question(u, g).db = DB

\* A game finished after its quiz's questions (at least one) were all resolved.
C5_Witness ==
    \E g \in 1..Len(games) :
        /\ games[g].finished
        /\ QuestionCount(g) >= 1
        /\ Len(ResolvedOf(g)) = QuestionCount(g)
        /\ games[g].offset = QuestionCount(g)

----------------------------------------------------------------------------
(* Results *)

\* The ids of the correct and of the incorrect answers of a question, read off the
\* stored answers one by one.
CorrectIds(question) ==
    {question.answers[i].id : i \in {j \in 1..Len(question.answers) : question.answers[j].is_correct}}
IncorrectIds(question) ==
    {question.answers[i].id : i \in {j \in 1..Len(question.answers) : ~question.answers[j].is_correct}}
\* How many of the chosen ids, counted with repetitions, are in a set.
ChosenIn(choices, ids) == Cardinality({j \in 1..Len(choices) : choices[j] \in ids})

\* The statistics entry the results carry for a GameQuestion.
StatOf(game_question) ==
    [answer_score |-> game_question.answer_score,
     title |-> QuestionRow(game_question.question_id).title]

\* The play-through of the two-question scenario: the first question is the single
\* answer one, answered with its correct answer; the second has two correct and two
\* incorrect answers and was answered with one correct and one incorrect choice.
TwoQuestionScenario(game_id) ==
    LET qs == QuestionsOf(games[game_id].quiz_id)
        gqs == GameQuestionsOf(game_id)
    IN /\ Len(qs) = 2 /\ Len(gqs) = 2
       /\ qs[1].type = SINGLE_ANSWER /\ qs[2].type = MULTIPLE_ANSWERS
       /\ Len(qs[2].answers) = 4 /\ Cardinality(CorrectIds(qs[2])) = 2
       /\ gqs[1].question_id = qs[1].id /\ gqs[1].answered
       /\ gqs[2].question_id = qs[2].id /\ gqs[2].answered
       /\ Len(ChoicesOf(gqs[1].id)) = 1
       /\ ChoicesOf(gqs[1].id)[1] \in CorrectIds(qs[1])
       /\ Len(ChoicesOf(gqs[2].id)) = 2
       /\ ChosenIn(ChoicesOf(gqs[2].id), CorrectIds(qs[2])) = 1
       /\ ChosenIn(ChoicesOf(gqs[2].id), IncorrectIds(qs[2])) = 1

\* What C6 says of the reply of GetResults for a finished game.
ResultsAsClaimed(reply, game_id) ==
    /\ Outcome(reply) = Ok
    /\ reply.result.score = games[game_id].score
    /\ reply.result.score_percentage.num * Len(ResolvedOf(game_id))
           = games[game_id].score * 100 * reply.result.score_percentage.den
    /\ reply.result.question_stats =
           [k \in 1..Len(ResolvedOf(game_id)) |-> StatOf(ResolvedOf(game_id)[k])]
    /\ \A k \in 1..Len(ResolvedOf(game_id)) :
           ResolvedOf(game_id)[k].skipped => reply.result.question_stats[k].answer_score = 0
    /\ TwoQuestionScenario(game_id)
       => /\ reply.result.score = 1 * ScoreScale
          /\ reply.result.score_percentage.num = 50 * ScoreScale * reply.result.score_percentage.den
          /\ reply.result.question_stats[1].answer_score = 1 * ScoreScale
          /\ reply.result.question_stats[2].answer_score = 0

\* C6: for every finished game, GetResults (called by the owner) succeeds with
\* score = Game.score, score_percentage = Game.score / (number of resolved
\* GameQuestions) * 100 and one {title, answer_score} entry per resolved GameQuestion,
\* skipped ones with score 0; in the two-question scenario the score is 1, the
\* percentage 50 and the answer scores 1 and 0 (scores are in units of 1/ScoreScale).
C6_Results ==
    \A u \in Users, g \in GameIds :
        (OwnedGame(u, g) # <<>> /\ games[g].finished)
        => ResultsAsClaimed(service_get_results(u, g), g)

----------------------------------------------------------------------------
(* Rejections *)

\* C7: GetResults on a game of the caller that is not finished fails with "not
\* finished", returns no results and leaves every table as it is, also when all
\* questions are resolved and finished is not set yet; and no GetResults call, by
\* anyone on any game id, changes a table.
C7_NotFinished ==
    \A u \in Users, g \in GameIds :
        /\ service_get_results(u, g).db = DB
        /\ (OwnedGame(u, g) # <<>> /\ ~games[g].finished)
           => /\ Outcome(service_get_results(u, g)) = NotFinished
              /\ service_get_results(u, g).result = NoResult

\* A game with every question of its quiz (at least one) resolved and finished not set.
C7_Witness ==
    \E g \in 1..Len(games) :
        /\ ~games[g].finished
        /\ QuestionCount(g) >= 1
        /\ Len(ResolvedOf(g)) = QuestionCount(g)

\* The pending GameQuestions of single answer questions in the games of a user.
PendingSingle(user_id, game_id) ==
    {k \in 1..Len(gameQuestions) :
        /\ OwnedGame(user_id, game_id) # <<>>
        /\ gameQuestions[k].game_id = game_id
        /\ ~Resolved(gameQuestions[k])
        /\ get_question(gameQuestions[k].question_id) # <<>>
        /\ QuestionRow(gameQuestions[k].question_id).type = SINGLE_ANSWER}

\* C8: an Answer with more than one choice id on a pending GameQuestion of a single
\* answer question fails with the cardinality error and leaves every table as it is:
\* the game's offset and score, the GameQuestion (still pending) and the GameAnswer
\* rows.
C8_SingleCardinality ==
    \A u \in Users, g \in GameIds :
        \A k \in PendingSingle(u, g) :
            \A choices \in ChoiceLists(g, k) :
                Len(choices) > 1
                => /\ Outcome(service_answer_question(u, g, k, choices))
                          = InvalidChoiceCardinality
                   /\ service_answer_question(u, g, k, choices).db = DB

\* A pending GameQuestion of a single answer question, which has two-choice requests.
C8_Witness ==
    \E u \in Users, g \in GameIds :
        \E k \in PendingSingle(u, g) :
            \E choices \in ChoiceLists(g, k) : Len(choices) = 2

----------------------------------------------------------------------------
(* The scoring rule over every question authoring accepts.  A play-through  *)
(* of a one-question quiz is taken up where NextQuestion has created the    *)
(* GameQuestion: the question is any title-less shape of min_items to       *)
(* max_items answers that validate_answers accepts, and the Answer calls    *)
(* carry any list of its answer ids and of an id that is none of them.      *)

AnswerFlags == UNION {[1..n -> BOOLEAN] : n \in min_items..max_items}
ValidPayloads ==
    {p \in {[title |-> "Q", type |-> t, answers |-> AnswerSchemas(f)] :
                t \in QuestionTypeEnum, f \in AnswerFlags} :
        validate_answers(p.answers, p.type) = Ok}

InitScore ==
    \E p \in ValidPayloads :
        /\ quizzes = <<[id |-> 1, published |-> TRUE, deleted |-> FALSE, user_id |-> "u1"]>>
        /\ questions = <<NewQuestion(1, 1, p)>>
        /\ games = <<[id |-> 1, finished |-> FALSE, score |-> 0, offset |-> 0,
                      quiz_id |-> 1, user_id |-> "u2"]>>
        /\ gameQuestions = <<[id |-> 1, answered |-> FALSE, skipped |-> FALSE,
                              answer_score |-> NULL, game_id |-> 1, question_id |-> 1]>>
        /\ gameAnswers = <<>>
        /\ NoCalls

AllChoiceLists(question_id) ==
    UNION {[1..n -> Range(AnswerIds(question_id)) \cup {BogusAnswerId}] : n \in 0..MaxChoices}

AnswerAny ==
    \E u \in Users, g \in GameIds :
        \E gq \in GameQuestionIds(u, g) :
            \E choices \in AllChoiceLists(gq) :
                Commit(service_answer_question(u, g, gq, choices))

NextScore ==
    \/ AnswerAny
    \/ NextQuestion

SpecScore == InitScore /\ [][NextScore]_vars

\* C9: for every single answer question and every single chosen id, the scoring rule
\* gives +1 if the id is a correct answer of the question and -1 if it is an incorrect
\* one (in units of 1/ScoreScale); the Answer call that carries the id stores that
\* score, and a stored score of an answered single answer question is the one of its
\* recorded choice.
C9_SingleScore ==
    \A k \in 1..Len(gameQuestions) :
        LET question == QuestionRow(gameQuestions[k].question_id)
            g == gameQuestions[k].game_id
            Expected(id) == IF id \in CorrectIds(question) THEN ScoreScale ELSE 0 - ScoreScale
        IN question.type = SINGLE_ANSWER
           => /\ \A id \in CorrectIds(question) \cup IncorrectIds(question) :
                    /\ calculate_answer_score(<<id>>, question.answers, question.type)
                           = Scored(Expected(id))
                    /\ ~Resolved(gameQuestions[k])
                       => LET reply == service_answer_question(games[g].user_id, g, k, <<id>>)
                          IN /\ Outcome(reply) = Ok
                             /\ reply.db.gameQuestions[k].answer_score = Expected(id)
                             /\ reply.db.games[g].score = games[g].score + Expected(id)
              /\ gameQuestions[k].answered
                 => /\ Len(ChoicesOf(k)) = 1
                    /\ gameQuestions[k].answer_score = Expected(ChoicesOf(k)[1])
                    /\ games[g].score = Expected(ChoicesOf(k)[1])

\* A single answer question with max_items answers, answered with an incorrect one.
C9_Witness ==
    \E k \in 1..Len(gameQuestions) :
        /\ QuestionRow(gameQuestions[k].question_id).type = SINGLE_ANSWER
        /\ Len(QuestionRow(gameQuestions[k].question_id).answers) = max_items
        /\ gameQuestions[k].answered
        /\ ChoicesOf(k)[1] \in IncorrectIds(QuestionRow(gameQuestions[k].question_id))
        /\ gameQuestions[k].answer_score = 0 - ScoreScale

\* score = p/|correct| - m/|incorrect|, in units of 1/ScoreScale and cleared of
\* denominators.
MultipleScoreIs(score, question, choices) ==
    score * Cardinality(CorrectIds(question)) * Cardinality(IncorrectIds(question))
        = ScoreScale * (ChosenIn(choices, CorrectIds(question)) * Cardinality(IncorrectIds(question))
                        - ChosenIn(choices, IncorrectIds(question)) * Cardinality(CorrectIds(question)))

\* C10: for every multiple answers question with at least one correct and one
\* incorrect answer and every list of chosen ids that are all answers of the question,
\* the scoring rule gives p/|correct| - m/|incorrect|, p and m being the numbers of
\* chosen ids in the correct and in the incorrect set; the Answer call that carries the
\* list stores that score, and a stored score of such an answered question is the one
\* of its recorded choices.
C10_MultipleScore ==
    \A k \in 1..Len(gameQuestions) :
        LET question == QuestionRow(gameQuestions[k].question_id)
            g == gameQuestions[k].game_id
            ids == CorrectIds(question) \cup IncorrectIds(question)
        IN (/\ question.type = MULTIPLE_ANSWERS
            /\ CorrectIds(question) # {}
            /\ IncorrectIds(question) # {})
           => /\ \A choices \in UNION {[1..n -> ids] : n \in 0..MaxChoices} :
                    /\ calculate_answer_score(choices, question.answers, question.type).outcome = Ok
                    /\ MultipleScoreIs(
                           calculate_answer_score(choices, question.answers, question.type).score,
                           question, choices)
                    /\ ~Resolved(gameQuestions[k])
                       => LET reply == service_answer_question(games[g].user_id, g, k, choices)
                          IN /\ Outcome(reply) = Ok
                             /\ MultipleScoreIs(reply.db.gameQuestions[k].answer_score,
                                                question, choices)
              /\ gameQuestions[k].answered
                 => MultipleScoreIs(gameQuestions[k].answer_score, question, ChoicesOf(k))

\* A question with two correct and three incorrect answers, answered with one correct
\* and one incorrect choice: its score is neither an integer nor zero.
C10_Witness ==
    \E k \in 1..Len(gameQuestions) :
        LET question == QuestionRow(gameQuestions[k].question_id)
        IN /\ question.type = MULTIPLE_ANSWERS
           /\ Cardinality(CorrectIds(question)) = 2
           /\ Cardinality(IncorrectIds(question)) = 3
           /\ gameQuestions[k].answered
           /\ ChosenIn(ChoicesOf(k), CorrectIds(question)) = 1
           /\ ChosenIn(ChoicesOf(k), IncorrectIds(question)) = 1
           /\ gameQuestions[k].answer_score * 6 = ScoreScale

----------------------------------------------------------------------------
(* Bounds on scores *)

\* C11: the score stored for an answered multiple answers question lies in [-1, 1],
\* whatever list of ids the accepted Answer carried (repetitions included), and so
\* the absolute value of a game's score is at most its offset (scores are in units
\* of 1/ScoreScale).
C11_ScoreBounded ==
    /\ \A k \in 1..Len(gameQuestions) :
          (/\ gameQuestions[k].answered
           /\ QuestionRow(gameQuestions[k].question_id).type = MULTIPLE_ANSWERS)
          => /\ gameQuestions[k].answer_score <= ScoreScale
             /\ gameQuestions[k].answer_score >= 0 - ScoreScale
    /\ \A g \in 1..Len(games) :
          /\ games[g].score <= games[g].offset * ScoreScale
          /\ games[g].score >= 0 - games[g].offset * ScoreScale

----------------------------------------------------------------------------
(* Effects of Answer and Skip *)

\* The rows of a table other than row k are the same in the tables a reply leaves.
OtherRowsKept(before, after, k) ==
    /\ Len(after) = Len(before)
    /\ \A i \in 1..Len(before) : i # k => after[i] = before[i]

\* C12: a successful Answer adds the computed score to the game's score, adds 1 to
\* its offset, sets the GameQuestion answered with the computed score as answer_score
\* and appends one GameAnswer row per submitted choice id, in order, each referring
\* to the GameQuestion; skipped stays false, finished and every other row and table
\* stay as they are.
C12_AnswerEffects ==
    \A u \in Users, g \in GameIds :
        \A gq \in GameQuestionIds(u, g) :
            \A choices \in ChoiceLists(g, gq) :
                LET reply == service_answer_question(u, g, gq, choices)
                    question == QuestionRow(gameQuestions[gq].question_id)
                    score == calculate_answer_score(choices, question.answers, question.type).score
                IN Outcome(reply) = Ok
                   => /\ reply.db.quizzes = quizzes
                      /\ reply.db.questions = questions
                      /\ OtherRowsKept(games, reply.db.games, g)
                      /\ reply.db.games[g] =
                            [games[g] EXCEPT !.score = games[g].score + score,
                                             !.offset = games[g].offset + 1]
                      /\ reply.db.games[g].finished = games[g].finished
                      /\ OtherRowsKept(gameQuestions, reply.db.gameQuestions, gq)
                      /\ reply.db.gameQuestions[gq] =
                            [gameQuestions[gq] EXCEPT !.answered = TRUE, !.answer_score = score]
                      /\ ~reply.db.gameQuestions[gq].skipped
                      /\ Len(reply.db.gameAnswers) = Len(gameAnswers) + Len(choices)
                      /\ SubSeq(reply.db.gameAnswers, 1, Len(gameAnswers)) = gameAnswers
                      /\ \A i \in 1..Len(choices) :
                            reply.db.gameAnswers[Len(gameAnswers) + i] =
                                [choice |-> choices[i], game_question_id |-> gq]

\* A game whose score is not 0 after two resolved questions, the second answered
\* with two choices.
C12_Witness ==
    \E g \in 1..Len(games) :
        /\ games[g].offset = 2
        /\ games[g].score # 0
        /\ Len(ResolvedOf(g)) = 2
        /\ ResolvedOf(g)[2].answered
        /\ Len(ChoicesOf(ResolvedOf(g)[2].id)) = 2

----------------------------------------------------------------------------
(* Choices that are no answer of the question *)

\* The pending GameQuestions of a game of a user.
Pending(user_id, game_id) ==
    {k \in 1..Len(gameQuestions) :
        /\ OwnedGame(user_id, game_id) # <<>>
        /\ gameQuestions[k].game_id = game_id
        /\ ~Resolved(gameQuestions[k])
        /\ get_question(gameQuestions[k].question_id) # <<>>}
\* Some submitted id is neither a correct nor an incorrect answer of the question.
HasUnknownChoice(choices, question) ==
    \E i \in 1..Len(choices) :
        choices[i] \notin CorrectIds(question) \cup IncorrectIds(question)

\* C14 as stated: an Answer on a pending GameQuestion with a choice id that is no
\* answer of its question fails with "choice not in choices list", for both question
\* types and whatever the other ids are, and leaves every table as it is.
C14_InvalidChoice ==
    \A u \in Users, g \in GameIds :
        \A k \in Pending(u, g) :
            \A choices \in ChoiceLists(g, k) :
                HasUnknownChoice(choices, QuestionRow(gameQuestions[k].question_id))
                => /\ Outcome(service_answer_question(u, g, k, choices)) = InvalidChoice
                   /\ service_answer_question(u, g, k, choices).db = DB

\* C14, as the code has it: the cardinality check comes first.  Such an Answer
\* leaves every table as it is and fails with "choice not in choices list", except
\* on a single answer question when it carries more than one id: then it fails with
\* the cardinality error.
C14_InvalidChoiceAfterCardinality ==
    \A u \in Users, g \in GameIds :
        \A k \in Pending(u, g) :
            \A choices \in ChoiceLists(g, k) :
                LET question == QuestionRow(gameQuestions[k].question_id)
                    reply == service_answer_question(u, g, k, choices)
                IN HasUnknownChoice(choices, question)
                   => /\ reply.db = DB
                      /\ reply.result = NoResult
                      /\ Outcome(reply) =
                            IF question.type = SINGLE_ANSWER /\ Len(choices) > 1
                            THEN InvalidChoiceCardinality
                            ELSE InvalidChoice

\* A pending GameQuestion of a multiple answers question after the single answer
\* question of the quiz was resolved: requests with an unknown id next to a valid one
\* have been sent to both.
C14_Witness ==
    \E u \in Users, g \in 1..Len(games) :
        /\ games[g].offset = 1
        /\ \E k \in Pending(u, g) :
              /\ QuestionRow(gameQuestions[k].question_id).type = MULTIPLE_ANSWERS
              /\ \E choices \in ChoiceLists(g, k) :
                    /\ Len(choices) = 2
                    /\ HasUnknownChoice(choices, QuestionRow(gameQuestions[k].question_id))
                    /\ choices[1] \in CorrectIds(QuestionRow(gameQuestions[k].question_id))
        /\ \E j \in 1..Len(gameQuestions) :
              /\ gameQuestions[j].game_id = g
              /\ Resolved(gameQuestions[j])
              /\ QuestionRow(gameQuestions[j].question_id).type = SINGLE_ANSWER

\* C15: an Answer on a pending multiple answers GameQuestion never ends in an
\* unhandled fault: also when the question has no incorrect answer it ends with a
\* business error or a score, and a failed call leaves every table as it is.
C15_NoArithmeticFault ==
    \A u \in Users, g \in GameIds :
        \A k \in Pending(u, g) :
            \A choices \in ChoiceLists(g, k) :
                LET reply == service_answer_question(u, g, k, choices)
                IN QuestionRow(gameQuestions[k].question_id).type = MULTIPLE_ANSWERS
                   => /\ reply.status # 500
                      /\ Outcome(reply) # Ok => reply.db = DB

----------------------------------------------------------------------------
(* Start *)

\* The games of a user for a quiz.
GamesOf(user_id, quiz_id) ==
    SelectSeq(games, LAMBDA g : g.user_id = user_id /\ g.quiz_id = quiz_id)

\* C16: Start succeeds only for a quiz that exists, is published and is not deleted;
\* for any other quiz id it fails with "quiz not found" and leaves every table as it
\* is.  When it succeeds and the user has no game for the quiz, it adds exactly one
\* Game row, with score 0, offset 0 and finished false, for that user and quiz, and
\* returns its id; every other row stays as it is.
C16_Start ==
    \A u \in Users, q \in QuizIds :
        LET reply == service_start(u, q)
        IN /\ Outcome(reply) = Ok => Playable(q)
           /\ ~Playable(q)
              => /\ Outcome(reply) = QuizNotFound
                 /\ reply.db = DB
           /\ (Outcome(reply) = Ok /\ GamesOf(u, q) = <<>>)
              => /\ reply.db = [DB EXCEPT !.games =
                        Append(games, [id |-> reply.result.id, finished |-> FALSE, score |-> 0,
                                       offset |-> 0, quiz_id |-> q, user_id |-> u])]
                 /\ \A i \in 1..Len(games) : games[i].id # reply.result.id
           /\ (Playable(q) /\ GamesOf(u, q) = <<>>) => Outcome(reply) = Ok

\* A game was started and its quiz was deleted afterwards, so Start has succeeded and
\* now fails for the quiz.
C16_Witness ==
    \E g \in 1..Len(games) :
        /\ games[g].score = 0 /\ games[g].offset = 0 /\ ~games[g].finished
        /\ \E k \in 1..Len(quizzes) :
              quizzes[k].id = games[g].quiz_id /\ quizzes[k].published /\ quizzes[k].deleted

\* C17: when the user has a finished game for a quiz that is published and not
\* deleted, Start fails with "already played", adds no Game row and leaves the
\* finished game (and every table) as it is.
C17_AlreadyPlayed ==
    \A u \in Users, q \in QuizIds :
        (/\ Playable(q)
         /\ \E i \in 1..Len(GamesOf(u, q)) : GamesOf(u, q)[i].finished)
        => /\ Outcome(service_start(u, q)) = AlreadyPlayed
           /\ service_start(u, q).db = DB

----------------------------------------------------------------------------
(* Two players.  One published quiz with one multiple answers question,    *)
(* which both users play, each in a game of their own, their calls          *)
(* interleaved call by call.                                                *)

Payload(title) == CHOOSE p \in QuestionPayloads : p.title = title

InitGames ==
    /\ quizzes = <<[id |-> 1, published |-> TRUE, deleted |-> FALSE, user_id |-> "u1"]>>
    /\ questions = <<NewQuestion(1, 1, Payload("M"))>>
    /\ games = <<>>
    /\ gameQuestions = <<>>
    /\ gameAnswers = <<>>
    /\ NoCalls

StartAny == \E u \in Users, q \in QuizIds : Commit(service_start(u, q))

NextGames ==
    \/ StartAny
    \/ NextQuestion
    \/ Answer
    \/ Skip
    \/ GetResults

SpecGames == InitGames /\ [][NextGames]_vars

\* C18: a call of NextQuestion, Answer, Skip or GetResults on a game by a user who
\* does not own it has the reply of the same call on a game id no game has: "game
\* not found", no result, every table as it is.  An Answer or a Skip by the owner of
\* a game that names a GameQuestion of another game fails with "question not found
\* for game" and leaves every table as it is.
C18_ForeignGame ==
    /\ \A v \in Users, g \in 1..Len(games) :
          games[g].user_id # v
          => /\ service_next_question(v, g) = Raise(GameNotFound)
             /\ service_next_question(v, g) = service_next_question(v, 0)
             /\ service_get_results(v, g) = Raise(GameNotFound)
             /\ service_get_results(v, g) = service_get_results(v, 0)
             /\ \A k \in 0..Len(gameQuestions) :
                   /\ service_skip_question(v, g, k) = Raise(GameNotFound)
                   /\ service_skip_question(v, g, k) = service_skip_question(v, 0, k)
                   /\ \A choices \in ChoiceLists(g, k) :
                         /\ service_answer_question(v, g, k, choices) = Raise(GameNotFound)
                         /\ service_answer_question(v, g, k, choices)
                               = service_answer_question(v, 0, k, choices)
    /\ \A g \in 1..Len(games), k \in 1..Len(gameQuestions) :
          gameQuestions[k].game_id # g
          => /\ service_skip_question(games[g].user_id, g, k) = Raise(GameQuestionNotFound)
             /\ \A choices \in ChoiceLists(gameQuestions[k].game_id, k) :
                   service_answer_question(games[g].user_id, g, k, choices)
                       = Raise(GameQuestionNotFound)

\* Two games of two users, each with a GameQuestion, one of them pending and one
\* resolved.
C18_Witness ==
    \E g, h \in 1..Len(games) :
        /\ games[g].user_id # games[h].user_id
        /\ \E k \in 1..Len(gameQuestions) :
              gameQuestions[k].game_id = g /\ ~Resolved(gameQuestions[k])
        /\ \E k \in 1..Len(gameQuestions) :
              gameQuestions[k].game_id = h /\ Resolved(gameQuestions[k])

----------------------------------------------------------------------------
(* What NextQuestion shows of a question *)

\* A question with other answers marked correct.
WithFlags(question, flags) ==
    [question EXCEPT !.answers =
        [i \in 1..Len(question.answers) |-> [question.answers[i] EXCEPT !.is_correct = flags[i]]]]
\* The id and the display value of every answer of a question, its title and its type,
\* under a GameQuestion id.
Shown(game_question_id, question) ==
    [id |-> game_question_id, type |-> question.type, title |-> question.title,
     answers |-> [i \in 1..Len(question.answers) |->
                    [id |-> question.answers[i].id, value |-> question.answers[i].value]]]

\* C19: the response of a successful NextQuestion carries the GameQuestion id, the
\* title and the type of the question and, for each answer, its id and display value
\* and nothing else; it is the response the same question would get with any other
\* answers marked correct.
C19_NoCorrectFlag ==
    \A u \in Users, g \in GameIds :
        LET reply == service_next_question(u, g)
            response == NextQuestionResponse(reply.result)
            question == QuestionsOf(games[g].quiz_id)[games[g].offset + 1]
        IN Outcome(reply) = Ok
           => /\ DOMAIN response = {"id", "type", "title", "answers"}
              /\ \A i \in 1..Len(response.answers) :
                    DOMAIN response.answers[i] = {"id", "value"}
              /\ Len(response.answers) = Len(question.answers)
              /\ \A flags \in [1..Len(question.answers) -> BOOLEAN] :
                    response = Shown(response.id, WithFlags(question, flags))
              /\ gameQuestions[response.id].question_id = question.id

\* NextQuestion succeeds on a question of max_items answers, some correct and some
\* not.
C19_Witness ==
    \E u \in Users, g \in 1..Len(games) :
        /\ Outcome(service_next_question(u, g)) = Ok
        /\ Len(service_next_question(u, g).result.answers) = max_items
        /\ \E i, j \in 1..max_items :
              /\ service_next_question(u, g).result.answers[i].is_correct
              /\ ~service_next_question(u, g).result.answers[j].is_correct

----------------------------------------------------------------------------
(* Overlapping calls.  Each request runs in a session and a transaction of *)
(* its own; the services take no row lock (no with_for_update) and the     *)
(* models carry no version column.  A call is one step per statement that  *)
(* reaches the store: the SELECT of get_game, the SELECT of                *)
(* get_game_question (with the checks and the scoring that follow it), the *)
(* two UPDATEs and the COMMIT.  An UPDATE locks its row until the          *)
(* transaction ends.  The isolation level of the transactions is set       *)
(* where the engine is created; every level the store offers is modelled.  *)

CallIds == {1, 2}
IsolationLevels == {"READ COMMITTED", "REPEATABLE READ", "SERIALIZABLE"}

\* The statements of get_game, get_game_question and get_question, on the tables a
\* transaction sees.
select_game(state, game_id, user_id) ==
    LET game_list == SelectSeq(state.games, LAMBDA g :
            /\ g.id = game_id
            /\ g.user_id = user_id
            /\ \E i \in 1..Len(state.quizzes) : state.quizzes[i].id = g.quiz_id)
    IN IF game_list = <<>> THEN <<>> ELSE <<game_list[1]>>
select_game_question(state, game_id, question_id) ==
    Result_scalar(Result(SelectSeq(state.gameQuestions, LAMBDA gq :
        gq.id = question_id /\ gq.game_id = game_id)))
select_question(state, question_id) ==
    SelectSeq(state.questions, LAMBDA q : q.id = question_id)

\* A call that has not run its first statement yet.
NewCall(op, user_id, game_id, question_id, choices) ==
    [op |-> op, user_id |-> user_id, game_id |-> game_id, question_id |-> question_id,
     choices |-> choices, pc |-> "get_game", snapshot |-> NoResult, game |-> <<>>,
     game_question |-> <<>>, score |-> 0, locks |-> {}, outcome |-> NoResult]
\* A call that has ended, with its outcome: its transaction is over and its locks are
\* released.
Finished(call, outcome) ==
    [call EXCEPT !.pc = "done", !.outcome = outcome, !.snapshot = NoResult, !.locks = {}]

\* The tables a statement of a call sees: what is committed when the statement runs
\* under READ COMMITTED, what was committed when the call's first statement ran under
\* REPEATABLE READ and SERIALIZABLE.
Visible(call) ==
    IF isolation_level # "READ COMMITTED" /\ call.snapshot # NoResult
    THEN call.snapshot
    ELSE DB

\* The table of the UPDATE a call is about to send.  service_answer_question sends
\* update(Game) and leaves the GameQuestion to the flush of session.commit();
\* service_skip_question sets the GameQuestion's attributes first, and the session
\* flushes them ahead of its update(Game).
Statement(call) ==
    CASE call.op = "answer" /\ call.pc = "update_1" -> "games"
      [] call.op = "answer" /\ call.pc = "update_2" -> "gameQuestions"
      [] call.op = "skip" /\ call.pc = "update_1" -> "gameQuestions"
      [] call.op = "skip" /\ call.pc = "update_2" -> "games"

\* The call's UPDATE waits: another transaction holds the lock of the row.
Blocked(i) ==
    /\ calls[i].pc \in {"update_1", "update_2"}
    /\ \E j \in DOMAIN calls \ {i} : Statement(calls[i]) \in calls[j].locks

\* An UPDATE of a row that another transaction has changed and committed since this
\* one's snapshot fails under REPEATABLE READ and SERIALIZABLE ("could not serialize
\* access") and goes ahead on the new row under READ COMMITTED.
SerializationFailure(call) ==
    /\ isolation_level # "READ COMMITTED"
    /\ IF Statement(call) = "games"
       THEN games[call.game_id] # call.snapshot.games[call.game_id]
       ELSE gameQuestions[call.question_id] # call.snapshot.gameQuestions[call.question_id]

CallGetGame ==
    \E i \in DOMAIN calls :
        /\ calls[i].pc = "get_game"
        /\ LET game == select_game(DB, calls[i].game_id, calls[i].user_id)
           IN calls' = [calls EXCEPT ![i] =
                  IF game = <<>> THEN Finished(@, GameNotFound)
                  ELSE [@ EXCEPT !.pc = "get_game_question", !.game = game, !.snapshot = DB]]
        /\ UNCHANGED <<quizzes, questions, games, gameQuestions, gameAnswers, isolation_level>>

\* From get_game_question to the score: everything between the second read and the
\* writes.
checked_call(call, state) ==
    LET game_question == select_game_question(state, call.game_id, call.question_id)
        question == select_question(state, game_question[1].question_id)
    IN IF game_question = <<>> THEN Finished(call, GameQuestionNotFound)
       ELSE IF check_question_answered_or_skipped(game_question[1]) # Ok
       THEN Finished(call, check_question_answered_or_skipped(game_question[1]))
       ELSE IF call.op = "skip"
       THEN [call EXCEPT !.pc = "update_1", !.game_question = game_question]
       ELSE IF question = <<>> THEN Finished(call, Fault("IndexError"))
       ELSE IF score_answer(question[1], call.choices).outcome # Ok
       THEN Finished(call, score_answer(question[1], call.choices).outcome)
       ELSE [call EXCEPT !.pc = "update_1", !.game_question = game_question,
                         !.score = score_answer(question[1], call.choices).score]

CallGetGameQuestion ==
    \E i \in DOMAIN calls :
        /\ calls[i].pc = "get_game_question"
        /\ calls' = [calls EXCEPT ![i] = checked_call(@, Visible(@))]
        /\ UNCHANGED <<quizzes, questions, games, gameQuestions, gameAnswers, isolation_level>>

\* An UPDATE of the call, once no other transaction holds the row.
CallUpdate ==
    \E i \in DOMAIN calls :
        /\ calls[i].pc \in {"update_1", "update_2"}
        /\ ~Blocked(i)
        /\ calls' = [calls EXCEPT ![i] =
               IF SerializationFailure(@) THEN Finished(@, Fault("DBAPIError"))
               ELSE [@ EXCEPT !.locks = @ \cup {Statement(calls[i])},
                              !.pc = IF calls[i].pc = "update_1" THEN "update_2" ELSE "commit"]]
        /\ UNCHANGED <<quizzes, questions, games, gameQuestions, gameAnswers, isolation_level>>

\* Each of two calls waits for a row the other has locked: the store ends one of the
\* transactions ("deadlock detected").
CallDeadlock ==
    \E i \in DOMAIN calls :
        /\ Blocked(i)
        /\ \E j \in DOMAIN calls \ {i} :
              Blocked(j) /\ Statement(calls[i]) \in calls[j].locks
                         /\ Statement(calls[j]) \in calls[i].locks
        /\ calls' = [calls EXCEPT ![i] = Finished(@, Fault("DBAPIError"))]
        /\ UNCHANGED <<quizzes, questions, games, gameQuestions, gameAnswers, isolation_level>>

\* The commit of service_answer_question and of service_skip_question: the rows get
\* the values the call has computed from what it read.  update(Game) writes the
\* columns it names, the GameQuestion is updated in the attributes the call has set.
CallCommit ==
    \E i \in DOMAIN calls :
        LET call == calls[i]
            g == call.game_id
            k == call.question_id
        IN /\ call.pc = "commit"
           /\ calls' = [calls EXCEPT ![i] = Finished(@, Ok)]
           /\ IF call.op = "skip"
              THEN /\ games' = [games EXCEPT
                          ![g].offset = skipped_game(call.game[1]).offset]
                   /\ gameQuestions' = [gameQuestions EXCEPT
                          ![k].answer_score = 0, ![k].skipped = TRUE]
                   /\ gameAnswers' = gameAnswers
              ELSE /\ games' = [games EXCEPT
                          ![g].score = answered_game(call.game[1], call.score).score,
                          ![g].offset = answered_game(call.game[1], call.score).offset]
                   /\ gameQuestions' = [gameQuestions EXCEPT
                          ![k].answer_score = call.score, ![k].answered = TRUE]
                   /\ gameAnswers' = gameAnswers \o
                          [j \in 1..Len(call.choices) |->
                              [choice |-> call.choices[j], game_question_id |-> k]]
           /\ UNCHANGED <<quizzes, questions, isolation_level>>

\* The Skip and the Answers (with up to MaxChoices ids, the first and the last answer
\* of the question) that succeed on the pending GameQuestion when they run alone.
RaceRequests(question) ==
    {NewCall("skip", "u2", 1, 1, <<>>)} \cup
    {NewCall("answer", "u2", 1, 1, choices) :
        choices \in {c \in UNION {[1..n -> {question.answers[1].id,
                                             question.answers[Len(question.answers)].id}] :
                                  n \in 0..MaxChoices} :
                        score_answer(question, c).outcome = Ok}}

\* A game at its first question, the GameQuestion pending, and two calls for it.
InitRace ==
    \E p \in {Payload("S"), Payload("M")}, level \in IsolationLevels :
        \E first, second \in RaceRequests(NewQuestion(1, 1, p)) :
            /\ quizzes = <<[id |-> 1, published |-> TRUE, deleted |-> FALSE, user_id |-> "u1"]>>
            /\ questions = <<NewQuestion(1, 1, p)>>
            /\ games = <<[id |-> 1, finished |-> FALSE, score |-> 0, offset |-> 0,
                          quiz_id |-> 1, user_id |-> "u2"]>>
            /\ gameQuestions = <<[id |-> 1, answered |-> FALSE, skipped |-> FALSE,
                                  answer_score |-> NULL, game_id |-> 1, question_id |-> 1]>>
            /\ gameAnswers = <<>>
            /\ calls = [i \in CallIds |-> IF i = 1 THEN first ELSE second]
            /\ isolation_level = level

NextRace ==
    \/ CallGetGame
    \/ CallGetGameQuestion
    \/ CallUpdate
    \/ CallDeadlock
    \/ CallCommit

SpecRace == InitRace /\ [][NextRace]_vars

\* The tables are those one call leaves when it resolves the GameQuestion alone.
SingleResolution(call) ==
    /\ games[call.game_id].offset = 1
    /\ games[call.game_id].score = call.score
    /\ gameQuestions[call.question_id].answered = (call.op = "answer")
    /\ gameQuestions[call.question_id].skipped = (call.op = "skip")
    /\ gameQuestions[call.question_id].answer_score = call.score
    /\ ChoicesOf(call.question_id) = call.choices

\* C20: when two Answer/Skip calls for the same pending GameQuestion have both ended,
\* however their reads and commits were interleaved, one of them has succeeded and
\* the other has failed with "already skipped" or "already answered", and the tables
\* are those of the successful call alone: offset 1, its score, its GameAnswer rows,
\* answered or skipped and not both.
C20_OneResolution ==
    (calls # <<>> /\ \A i \in DOMAIN calls : calls[i].pc = "done")
    => \E i, j \in DOMAIN calls :
          /\ i # j
          /\ calls[i].outcome = Ok
          /\ calls[j].outcome \in AlreadyResolved
          /\ SingleResolution(calls[i])

----------------------------------------------------------------------------
(* Finishing, single answer cardinality, deleted quizzes *)

\* C24: every finished game has at least one resolved GameQuestion, so GetResults by
\* its owner does not end in a division by a resolved question count of 0.
C24_FinishedHasResolved ==
    \A g \in 1..Len(games) :
        games[g].finished
        => /\ Len(ResolvedOf(games[g].id)) >= 1
           /\ Outcome(service_get_results(games[g].user_id, games[g].id))
                  # Fault("ZeroDivisionError")

\* C28: an Answer on a pending GameQuestion of a single answer question with a number
\* of choice ids other than one (none, or more than one) fails with a business error
\* (status 400, not an unhandled fault) and leaves every table as it is.
C28_SingleExactlyOne ==
    \A u \in Users, g \in GameIds :
        \A k \in PendingSingle(u, g) :
            \A choices \in ChoiceLists(g, k) :
                Len(choices) # 1
                => /\ service_answer_question(u, g, k, choices).status = 400
                   /\ service_answer_question(u, g, k, choices).db = DB

\* C29: once a quiz is deleted it stays deleted, no Start on it succeeds and no
\* NextQuestion on a game of it serves a question.
C29_DeletedNotPlayable ==
    /\ [](\A q \in 1..Len(quizzes) :
            quizzes[q].deleted
            => /\ \A u \in Users : Outcome(service_start(u, quizzes[q].id)) # Ok
               /\ \A u \in Users, g \in 1..Len(games) :
                     games[g].quiz_id = quizzes[q].id
                     => Outcome(service_next_question(u, g)) # Ok)
    /\ [][\A q \in 1..Len(quizzes) : quizzes[q].deleted => quizzes'[q].deleted]_vars

----------------------------------------------------------------------------
(* Overlapping look-up-or-create calls: Start and NextQuestion.  Neither   *)
(* Game nor GameQuestion declares a unique constraint besides its primary  *)
(* key, and the services take no lock.  A call is one step per statement   *)
(* that reaches the store; an INSERT waits for no other transaction.       *)

\* The statements of get_quiz, service_start and service_next_question on the tables
\* a transaction sees.
select_quiz(state, quiz_id) ==
    Result_scalar(Result(SelectSeq(state.quizzes, LAMBDA q : q.id = quiz_id /\ ~q.deleted)))
select_existing_game(state, quiz_id, user_id) ==
    SelectSeq(state.games, LAMBDA g : g.quiz_id = quiz_id /\ g.user_id = user_id)
select_next_question(state, quiz_id, offset) ==
    LET rows == SelectSeq(state.questions, LAMBDA q : q.quiz_id = quiz_id)
    IN Result_scalar(Result(SubSeq(rows, offset + 1, Len(rows))))
select_game_question_result(state, game_id, question_id) ==
    SelectSeq(state.gameQuestions, LAMBDA gq :
        gq.question_id = question_id /\ gq.game_id = game_id)

\* A Start or NextQuestion call that has not run its first statement yet.
NewCreateCall(op, user_id, id) ==
    [op |-> op, user_id |-> user_id, id |-> id,
     pc |-> IF op = "start" THEN "get_quiz" ELSE "get_game",
     snapshot |-> NoResult, game |-> <<>>, question |-> <<>>, locks |-> {},
     outcome |-> NoResult, result |-> NoResult]
\* The call has ended with this outcome and this return value.
Returned(call, outcome, result) ==
    [Finished(call, outcome) EXCEPT !.result = result]

\* Under SERIALIZABLE a transaction that has selected rows by a condition and then
\* writes fails ("could not serialize access due to read/write dependencies") when
\* another transaction has committed a row that meets the condition in between.
ReadWriteDependency(call, rows_now, rows_read) ==
    isolation_level = "SERIALIZABLE" /\ rows_now # rows_read

\* quiz = await get_quiz(...), and the check of deleted and published.
StartGetQuiz ==
    \E i \in DOMAIN calls :
        /\ calls[i].pc = "get_quiz"
        /\ LET quiz == select_quiz(DB, calls[i].id)
           IN calls' = [calls EXCEPT ![i] =
                  IF quiz = <<>> THEN Finished(@, QuizNotFound)
                  ELSE IF quiz[1].deleted \/ ~quiz[1].published THEN Finished(@, QuizNotFound)
                  ELSE [@ EXCEPT !.pc = "select_game", !.snapshot = DB]]
        /\ UNCHANGED <<quizzes, questions, games, gameQuestions, gameAnswers, isolation_level>>

\* existing_game = await session.execute(stmt), and what follows when a row is found.
StartSelectGame ==
    \E i \in DOMAIN calls :
        /\ calls[i].pc = "select_game"
        /\ LET existing_game ==
                   Result(select_existing_game(Visible(calls[i]), calls[i].id, calls[i].user_id))
               row == Result_scalar(Result_after_all(existing_game))
           IN calls' = [calls EXCEPT ![i] =
                  IF Result_all(existing_game) = <<>> THEN [@ EXCEPT !.pc = "add_game"]
                  ELSE IF row = <<>> THEN Finished(@, Fault("AttributeError"))
                  ELSE IF row[1].finished THEN Finished(@, AlreadyPlayed)
                  ELSE Returned(@, Ok, [id |-> row[1].id])]
        /\ UNCHANGED <<quizzes, questions, games, gameQuestions, gameAnswers, isolation_level>>

\* session.add(new_game); await session.commit()
StartCommit ==
    \E i \in DOMAIN calls :
        LET call == calls[i]
            new_game == [id |-> Len(games) + 1, finished |-> FALSE, score |-> 0,
                         offset |-> 0, quiz_id |-> call.id, user_id |-> call.user_id]
        IN /\ call.pc = "add_game"
           /\ IF ReadWriteDependency(call,
                     select_existing_game(DB, call.id, call.user_id),
                     select_existing_game(call.snapshot, call.id, call.user_id))
              THEN /\ calls' = [calls EXCEPT ![i] = Finished(@, Fault("DBAPIError"))]
                   /\ UNCHANGED games
              ELSE /\ calls' = [calls EXCEPT ![i] = Returned(@, Ok, [id |-> new_game.id])]
                   /\ games' = Append(games, new_game)
           /\ UNCHANGED <<quizzes, questions, gameQuestions, gameAnswers, isolation_level>>

\* game = await get_game(...), and the check of finished.
NextGetGame ==
    \E i \in DOMAIN calls :
        /\ calls[i].pc = "get_game"
        /\ LET game == select_game(DB, calls[i].id, calls[i].user_id)
           IN calls' = [calls EXCEPT ![i] =
                  IF game = <<>> THEN Finished(@, GameNotFound)
                  ELSE IF game[1].finished THEN Finished(@, AlreadyFinished)
                  ELSE [@ EXCEPT !.pc = "paginate_questions", !.game = game, !.snapshot = DB]]
        /\ UNCHANGED <<quizzes, questions, games, gameQuestions, gameAnswers, isolation_level>>

\* question = await paginate_questions(...)
NextPaginate ==
    \E i \in DOMAIN calls :
        /\ calls[i].pc = "paginate_questions"
        /\ LET question == select_next_question(Visible(calls[i]), calls[i].game[1].quiz_id,
                                                calls[i].game[1].offset)
           IN calls' = [calls EXCEPT ![i] =
                  IF question = <<>> THEN [@ EXCEPT !.pc = "finish"]
                  ELSE [@ EXCEPT !.pc = "select_game_question", !.question = question]]
        /\ UNCHANGED <<quizzes, questions, games, gameQuestions, gameAnswers, isolation_level>>

\* update(Game).values(finished=True) and its commit: the UPDATE waits for a
\* transaction that holds the row, so the two run as one step after that one's end.
NextFinish ==
    \E i \in DOMAIN calls :
        LET call == calls[i]
            g == call.game[1].id
        IN /\ call.pc = "finish"
           /\ IF isolation_level # "READ COMMITTED" /\ games[g] # call.snapshot.games[g]
              THEN /\ calls' = [calls EXCEPT ![i] = Finished(@, Fault("DBAPIError"))]
                   /\ UNCHANGED games
              ELSE /\ calls' = [calls EXCEPT ![i] = Finished(@, AlreadyFinished)]
                   /\ games' = [games EXCEPT ![g].finished = finished_game(call.game[1]).finished]
           /\ UNCHANGED <<quizzes, questions, gameQuestions, gameAnswers, isolation_level>>

\* game_question = await session.execute(game_question_stmt), and the return when
\* the row is there.
NextSelectGameQuestion ==
    \E i \in DOMAIN calls :
        /\ calls[i].pc = "select_game_question"
        /\ LET game_question_result ==
                   Result_scalar(Result(select_game_question_result(
                       Visible(calls[i]), calls[i].id, calls[i].question[1].id)))
           IN calls' = [calls EXCEPT ![i] =
                  IF game_question_result = <<>> THEN [@ EXCEPT !.pc = "add_game_question"]
                  ELSE Returned(@, Ok, [id |-> game_question_result[1].id,
                                        type |-> calls[i].question[1].type,
                                        title |-> calls[i].question[1].title,
                                        answers |-> calls[i].question[1].answers])]
        /\ UNCHANGED <<quizzes, questions, games, gameQuestions, gameAnswers, isolation_level>>

\* session.add(new_game_question); await session.commit(); the return statement
\* then reads the id of game_question_result, which is None.
NextCommit ==
    \E i \in DOMAIN calls :
        LET call == calls[i]
            new_game_question ==
                [id |-> Len(gameQuestions) + 1, answered |-> FALSE, skipped |-> FALSE,
                 answer_score |-> NULL, game_id |-> call.id,
                 question_id |-> call.question[1].id]
        IN /\ call.pc = "add_game_question"
           /\ IF ReadWriteDependency(call,
                     select_game_question_result(DB, call.id, call.question[1].id),
                     select_game_question_result(call.snapshot, call.id, call.question[1].id))
              THEN /\ calls' = [calls EXCEPT ![i] = Finished(@, Fault("DBAPIError"))]
                   /\ UNCHANGED gameQuestions
              ELSE /\ calls' = [calls EXCEPT ![i] = Finished(@, Fault("AttributeError"))]
                   /\ gameQuestions' = Append(gameQuestions, new_game_question)
           /\ UNCHANGED <<quizzes, questions, games, gameAnswers, isolation_level>>

\* Start of the published quiz and NextQuestion of its first game, by either user.
CreateRequests ==
    {NewCreateCall(op, u, 1) : op \in {"start", "next_question"}, u \in Users}

\* A published quiz of u1 with no question or one, no game yet or a game of u2 at its
\* first question, and two calls.
InitCreate ==
    \E level \in IsolationLevels, first, second \in CreateRequests :
        \E quiz_questions \in {<<>>, <<NewQuestion(1, 1, Payload("S"))>>} :
            \E quiz_games \in {<<>>, <<[id |-> 1, finished |-> FALSE, score |-> 0, offset |-> 0,
                                        quiz_id |-> 1, user_id |-> "u2"]>>} :
                /\ quizzes = <<[id |-> 1, published |-> TRUE, deleted |-> FALSE,
                                user_id |-> "u1"]>>
                /\ questions = quiz_questions
                /\ games = quiz_games
                /\ gameQuestions = <<>>
                /\ gameAnswers = <<>>
                /\ calls = [i \in CallIds |-> IF i = 1 THEN first ELSE second]
                /\ isolation_level = level

NextCreate ==
    \/ StartGetQuiz
    \/ StartSelectGame
    \/ StartCommit
    \/ NextGetGame
    \/ NextPaginate
    \/ NextFinish
    \/ NextSelectGameQuestion
    \/ NextCommit

SpecCreate == InitCreate /\ [][NextCreate]_vars

\* C21: in every state, also one reached by overlapping Start calls of one user for
\* one quiz, no two Game rows have the same user and the same quiz.
C21_OneGamePerUserQuiz ==
    \A i, j \in 1..Len(games) :
        (games[i].user_id = games[j].user_id /\ games[i].quiz_id = games[j].quiz_id)
        => i = j

\* C22: in every state, also one reached by overlapping NextQuestion calls on one
\* game, no two GameQuestion rows have the same game and the same question.
C22_OneGameQuestion ==
    \A i, j \in 1..Len(gameQuestions) :
        (/\ gameQuestions[i].game_id = gameQuestions[j].game_id
         /\ gameQuestions[i].question_id = gameQuestions[j].question_id)
        => i = j

----------------------------------------------------------------------------
(* Authoring: two quizzes, one of each user, and every add, update, delete *)
(* and publish request of either user with any quiz id and question id.    *)

\* Answer rows one question has had, counting those an update has replaced.
MaxAnswerRows == 4
\* The ids of the Question rows: the model follows two questions, in either quiz.
QuestionPool == {1, 2}

\* The bodies update-question is called with: nothing, each field alone, type and
\* answers together, all three; answers that validate_answers accepts for both types,
\* for one, for none.
UpdatePayloads ==
    {[title |-> "T", type |-> NULL, answers |-> <<>>],
     [title |-> NULL, type |-> NULL, answers |-> <<>>]} \cup
    {[title |-> NULL, type |-> ty, answers |-> <<>>] : ty \in QuestionTypeEnum} \cup
    {[title |-> NULL, type |-> NULL, answers |-> AnswerSchemas(flags)] :
        flags \in {<<FALSE, TRUE>>, <<TRUE, TRUE>>, <<FALSE, FALSE>>}} \cup
    {[title |-> t, type |-> SINGLE_ANSWER, answers |-> AnswerSchemas(<<TRUE, TRUE>>)] :
        t \in {NULL, "T"}}

\* The question ids of the requests: those in the table and one that is not.
QuestionIds == 0..(NextQuestionId - 1)

InitAuthor ==
    /\ quizzes = <<[id |-> 1, published |-> FALSE, deleted |-> FALSE, user_id |-> "u1"],
                   [id |-> 2, published |-> FALSE, deleted |-> FALSE, user_id |-> "u2"]>>
    /\ questions = <<>>
    /\ games = <<>>
    /\ gameQuestions = <<>>
    /\ gameAnswers = <<>>
    /\ NoCalls

AddAuthored ==
    \E u \in Users, q \in QuizIds, b \in QuestionsSchemas :
        /\ \A i \in 1..Len(b) : NextQuestionId + i - 1 \in QuestionPool
        /\ Commit(service_add_questions(u, q, b))
UpdateQuestion ==
    \E u \in Users, q \in QuizIds, k \in QuestionIds, d \in UpdatePayloads, moved \in BOOLEAN :
        /\ \A i \in 1..Len(questions) :
              questions[i].id = k
              => LastAnswer(questions[i]) + Len(d.answers) <= MaxAnswerRows
        /\ Commit(Stored(service_update_question(u, q, k, d), k, moved))
DeleteQuestion ==
    \E u \in Users, q \in QuizIds, k \in QuestionIds :
        Commit(service_delete_question(u, q, k))

NextAuthor ==
    \/ AddAuthored
    \/ UpdateQuestion
    \/ DeleteQuestion
    \/ PublishQuiz

SpecAuthor == InitAuthor /\ [][NextAuthor]_vars

\* C25: no step changes the questions of a published quiz (which questions they are,
\* and the title, type and answers of each), and no step sets published back to
\* false.
C25_PublishedImmutable ==
    [][\A q \in 1..Len(quizzes) :
          quizzes[q].published
          => /\ quizzes'[q].published
             /\ Range(QuestionsOf(quizzes[q].id))' = Range(QuestionsOf(quizzes[q].id))
      ]_vars

\* C26: every stored question has an answer marked correct, and every stored single
\* answer question has exactly one.
C26_CorrectAnswers ==
    \A i \in 1..Len(questions) :
        /\ CorrectIds(questions[i]) # {}
        /\ questions[i].type = SINGLE_ANSWER => Cardinality(CorrectIds(questions[i])) = 1

\* A question whose answers were replaced by an update and whose type is no more the
\* one it was added with, while an update of the answers alone is refused for it.
C26_Witness ==
    \E i \in 1..Len(questions) :
        /\ LastAnswer(questions[i]) > Len(questions[i].answers)
        /\ questions[i].title = "S"
        /\ questions[i].type = MULTIPLE_ANSWERS
        /\ \E d \in UpdatePayloads :
              /\ d.type = NULL
              /\ d.answers # <<>>
              /\ update_validation(questions[i], d) = NoCorrect

\* The questions of a quiz in the order they were added.
AddedOrder(quiz_id) ==
    LET rows == QuestionsOf(quiz_id)
    IN [n \in 1..Len(rows) |->
           CHOOSE r \in Range(rows) :
               Cardinality({j \in 1..Len(rows) : rows[j].id < r.id}) = n - 1]

\* C27: the sequencer returns the question at position offset in the order the
\* questions of the quiz were added, and none exactly when offset is at least the
\* number of its questions.
C27_SequencerOrder ==
    \A q \in 1..Len(quizzes) :
        \A offset \in 0..MaxQuestions :
            paginate_questions(quizzes[q].id, offset) =
                IF offset >= Len(AddedOrder(quizzes[q].id)) THEN <<>>
                ELSE <<AddedOrder(quizzes[q].id)[offset + 1]>>

----------------------------------------------------------------------------
(* Finished games and offsets *)

\* The GameAnswer rows of the GameQuestions of a game.
GameAnswersOf(game_id) ==
    SelectSeq(gameAnswers, LAMBDA ga :
        \E k \in 1..Len(gameQuestions) :
            gameQuestions[k].id = ga.game_question_id /\ gameQuestions[k].game_id = game_id)

\* C23: no step changes a finished game: its finished flag stays true, its offset and
\* score stay as they are, none of its GameQuestions is created or changed and no
\* GameAnswer is added to them.
C23_FinishedTerminal ==
    [][\A g \in 1..Len(games) :
          games[g].finished
          => /\ games'[g] = games[g]
             /\ GameQuestionsOf(games[g].id)' = GameQuestionsOf(games[g].id)
             /\ GameAnswersOf(games[g].id)' = GameAnswersOf(games[g].id)
      ]_vars

\* A finished game with an answered and a skipped GameQuestion, on which Answer and
\* Skip requests are still sent.
C23_Witness ==
    \E g \in 1..Len(games) :
        /\ games[g].finished
        /\ \E i, j \in 1..Len(gameQuestions) :
              /\ gameQuestions[i].game_id = g /\ gameQuestions[i].answered
              /\ gameQuestions[j].game_id = g /\ gameQuestions[j].skipped
              /\ Outcome(service_skip_question(games[g].user_id, g, i)) = AlreadyAnswered
              /\ Outcome(service_answer_question(games[g].user_id, g, j, <<>>)) = AlreadySkipped

\* C30: the offset of every game is the number of its GameQuestions that are answered
\* or skipped, and lies between 0 and the number of questions of its quiz.
C30_OffsetCountsResolved ==
    \A g \in 1..Len(games) :
        /\ games[g].offset = Len(ResolvedOf(games[g].id))
        /\ 0 <= games[g].offset
        /\ games[g].offset <= QuestionCount(g)

\* A game whose two questions are resolved, one answered and one skipped.
C30_Witness ==
    \E g \in 1..Len(games) :
        /\ games[g].offset = 2
        /\ QuestionCount(g) = 2
        /\ \E i, j \in 1..Len(gameQuestions) :
              /\ gameQuestions[i].game_id = g /\ gameQuestions[i].answered
              /\ gameQuestions[j].game_id = g /\ gameQuestions[j].skipped

----------------------------------------------------------------------------
(* Play under editing: a published quiz of u1 with two questions is played *)
(* while either user sends delete requests and updates of the title for    *)
(* any question through any quiz, among them the unpublished quiz of u2.   *)

\* An update that changes the title, so that the store writes the row anew.
TitleUpdate == [title |-> "T", type |-> NULL, answers |-> <<>>]

RetitleQuestion ==
    \E u \in Users, q \in QuizIds, k \in QuestionIds, moved \in BOOLEAN :
        Commit(Stored(service_update_question(u, q, k, TitleUpdate), k, moved))

InitEdit ==
    /\ quizzes = <<[id |-> 1, published |-> TRUE, deleted |-> FALSE, user_id |-> "u1"],
                   [id |-> 2, published |-> FALSE, deleted |-> FALSE, user_id |-> "u2"]>>
    /\ questions = <<NewQuestion(1, 1, Payload("S")), NewQuestion(2, 1, Payload("M"))>>
    /\ games = <<>>
    /\ gameQuestions = <<>>
    /\ gameAnswers = <<>>
    /\ NoCalls

NextEdit ==
    \/ Start
    \/ NextQuestion
    \/ Answer
    \/ Skip
    \/ GetResults
    \/ RetitleQuestion
    \/ DeleteQuestion

SpecEdit == InitEdit /\ [][NextEdit]_vars

----------------------------------------------------------------------------
(* The running total and the presented results.  The response model of    *)
(* GetResults formats every float with three decimals; here a presented    *)
(* value is a whole number of thousandths.  One player plays a published   *)
(* quiz of two questions, each a single answer question or a question     *)
(* whose correct choices are worth a third of a point.                     *)

\* float(f"{num/den:.3f}") in thousandths, for den > 0: the nearest whole number of
\* thousandths.  No score of the model lies half way between two of them.
Rounded(num, den) == (2 * 1000 * num + den) \div (2 * den)

\* FinalResultsResponse.round_float and the two assignments of the QuestionStat
\* validator, on a value in units of 1/ScoreScale.
round_float(field_value) == Rounded(field_value, ScoreScale)

QuestionStat(stat) ==
    [answer_score |-> round_float(stat.answer_score),
     title |-> stat.title,
     answer_score_percentage |-> round_float(stat.answer_score * 100)]

\* What the results endpoint sends for the value service_get_results returned.
FinalResultsResponse(result) ==
    [score |-> round_float(result.score),
     score_percentage |-> Rounded(result.score_percentage.num,
                                  result.score_percentage.den * ScoreScale),
     question_stats |-> [k \in 1..Len(result.question_stats) |->
                            QuestionStat(result.question_stats[k])]]

\* The sum of the answer_score of a sequence of rows.
RECURSIVE SumOfScores(_)
SumOfScores(rows) ==
    IF rows = <<>> THEN 0 ELSE rows[1].answer_score + SumOfScores(Tail(rows))

\* The score of every game is the sum of the answer_score of its resolved
\* GameQuestions.
ScoreIsSumOfResolved ==
    \A g \in 1..Len(games) : games[g].score = SumOfScores(ResolvedOf(games[g].id))

Distance(a, b) == IF a >= b THEN a - b ELSE b - a

\* C31: the score of every game is the sum of the answer_score of its resolved
\* GameQuestions (a skipped one counts 0), and in every result GetResults sends, the
\* score is the sum of the answer_score of the question_stats.
C31_ScoreIsSum ==
    /\ ScoreIsSumOfResolved
    /\ \A u \in Users, g \in GameIds :
           LET reply == service_get_results(u, g)
           IN Outcome(reply) = Ok
              => FinalResultsResponse(reply.result).score
                     = SumOfScores(FinalResultsResponse(reply.result).question_stats)

\* C31 as the code has it: the stored score is the sum of the stored answer scores,
\* and so is the score service_get_results returns; in the response, where the score
\* and each answer_score are rounded to three decimals on their own, the score is
\* within half a thousandth per entry of the sum of the answer scores.
C31_ScoreIsSumBeforeRounding ==
    /\ ScoreIsSumOfResolved
    /\ \A u \in Users, g \in GameIds :
           LET reply == service_get_results(u, g)
               sent == FinalResultsResponse(reply.result)
           IN Outcome(reply) = Ok
              => /\ reply.result.score = SumOfScores(reply.result.question_stats)
                 /\ 2 * Distance(sent.score, SumOfScores(sent.question_stats))
                        <= Len(sent.question_stats)

\* A finished game with two answers of a third of a point each: the total is sent as
\* 0.667 and the two answer scores as 0.333.
C31_Witness ==
    \E u \in Users, g \in GameIds :
        LET reply == service_get_results(u, g)
            sent == FinalResultsResponse(reply.result)
        IN /\ Outcome(reply) = Ok
           /\ 3 * reply.result.score = 2 * ScoreScale
           /\ sent.score = 667
           /\ Len(sent.question_stats) = 2
           /\ \A k \in 1..2 : sent.question_stats[k].answer_score = 333

\* A question with three correct answers and an incorrect one: a correct choice is
\* worth a third of a point.
ThirdsPayload ==
    [title |-> "T", type |-> MULTIPLE_ANSWERS,
     answers |-> AnswerSchemas(<<TRUE, TRUE, TRUE, FALSE>>)]

InitTotal ==
    \E p1, p2 \in {Payload("S"), ThirdsPayload} :
        /\ quizzes = <<[id |-> 1, published |-> TRUE, deleted |-> FALSE, user_id |-> "u1"]>>
        /\ questions = <<NewQuestion(1, 1, p1), NewQuestion(2, 1, p2)>>
        /\ games = <<[id |-> 1, finished |-> FALSE, score |-> 0, offset |-> 0,
                      quiz_id |-> 1, user_id |-> "u2"]>>
        /\ gameQuestions = <<>>
        /\ gameAnswers = <<>>
        /\ NoCalls

NextTotal ==
    \/ NextQuestion
    \/ Answer
    \/ Skip
    \/ GetResults

SpecTotal == InitTotal /\ [][NextTotal]_vars

----------------------------------------------------------------------------
(* The current question *)

\* The GameQuestions of a game that are neither answered nor skipped.
PendingOf(game_id) ==
    SelectSeq(GameQuestionsOf(game_id), LAMBDA gq : ~Resolved(gq))

\* The GameQuestion is the one of the question the sequencer gives at the offset of
\* its game.
IsCurrent(game_question) ==
    LET game == games[game_question.game_id]
        question == paginate_questions(game.quiz_id, game.offset)
    IN question # <<>> /\ game_question.question_id = question[1].id

\* C32: every game has at most one pending GameQuestion, which is the GameQuestion of
\* the question at position offset of its quiz, and an Answer or a Skip that succeeds
\* resolves the GameQuestion of that question and no other.
C32_OnePending ==
    /\ \A g \in 1..Len(games) :
           /\ Len(PendingOf(games[g].id)) <= 1
           /\ \A k \in 1..Len(PendingOf(games[g].id)) : IsCurrent(PendingOf(games[g].id)[k])
    /\ \A u \in Users, g \in GameIds :
           \A gq \in GameQuestionIds(u, g) :
               /\ Outcome(service_skip_question(u, g, gq)) = Ok
                  => IsCurrent(gameQuestions[gq])
               /\ \A choices \in ChoiceLists(g, gq) :
                      Outcome(service_answer_question(u, g, gq, choices)) = Ok
                      => IsCurrent(gameQuestions[gq])

----------------------------------------------------------------------------
(* Finished games are complete *)

\* The game has resolved every question of its quiz: its offset is the number of
\* questions, and every question has exactly one GameQuestion of the game, resolved.
Complete(g) ==
    LET qs == QuestionsOf(games[g].quiz_id)
    IN /\ games[g].offset = Len(qs)
       /\ \A i \in 1..Len(qs) :
              Len(SelectSeq(GameQuestionsOf(games[g].id),
                            LAMBDA gq : gq.question_id = qs[i].id)) = 1
       /\ PendingOf(games[g].id) = <<>>

\* Every finished game is complete.
FinishedAreComplete == \A g \in 1..Len(games) : games[g].finished => Complete(g)

\* C33: a finished game has offset = the number N of questions of its quiz, exactly
\* one GameQuestion for every question of the quiz and none of them pending, and
\* GetResults (called by its owner) reports exactly N question_stats entries.
C33_FinishedComplete ==
    /\ FinishedAreComplete
    /\ \A u \in Users, g \in 1..Len(games) :
           (OwnedGame(u, g) # <<>> /\ games[g].finished)
           => LET reply == service_get_results(u, g)
              IN /\ Outcome(reply) = Ok
                 /\ Len(reply.result.question_stats) = Len(QuestionsOf(games[g].quiz_id))

----------------------------------------------------------------------------
(* The size of a quiz.  The two authors add batches of one, five or ten     *)
(* questions to their unpublished quizzes, and publish them.               *)

\* The questions table holds at most this many rows.
MaxStored == 12

\* The lengths of the lists add-questions is called with; QuestionsSchema accepts
\* lists of 1 to 10 questions.
BatchSizes == {1, 5, 10}
Batch(n) == [i \in 1..n |-> Payload("S")]

AddBatch ==
    \E u \in Users, q \in QuizIds, n \in BatchSizes :
        /\ Len(questions) + n <= MaxStored
        /\ Commit(service_add_questions(u, q, Batch(n)))

NextBatches ==
    \/ AddBatch
    \/ PublishQuiz

SpecBatches == InitAuthor /\ [][NextBatches]_vars

\* C34: no quiz ever holds more than 10 questions.
C34_AtMostTen ==
    \A q \in 1..Len(quizzes) : Len(QuestionsOf(quizzes[q].id)) <= 10

----------------------------------------------------------------------------
(* Play-throughs.  The player of a game keeps calling: a call of theirs    *)
(* that can change the tables is not put off for ever.                     *)

\* A call of NextQuestion, Answer or Skip on the game.
Play(g) ==
    \E u \in Users :
        \/ Commit(service_next_question(u, g))
        \/ \E gq \in GameQuestionIds(u, g) :
               \/ Commit(service_skip_question(u, g, gq))
               \/ \E choices \in ChoiceLists(g, gq) :
                      Commit(service_answer_question(u, g, gq, choices))

Players == \A g \in GamePool : WF_vars(Play(g))

\* The calls of Spec, by players who keep calling.
SpecPlay == Spec /\ Players
\* Play under editing, by players who keep calling.
SpecEditPlay == SpecEdit /\ Players

InProgress(g) == g <= Len(games) /\ ~games[g].finished
Completed(g) == g <= Len(games) /\ games[g].finished /\ Complete(g)

\* C35: every game in progress whose player keeps calling NextQuestion and then
\* Answer or Skip becomes finished, with all the questions of its quiz resolved.
C35_PlayCompletes == \A g \in GamePool : InProgress(g) ~> Completed(g)

====
